---- MODULE Spec2Model ----
(***************************************************************************)
(* Model of LoanPredictionService (src/src/lib/ml/loan-predictor.ts): the  *)
(* weighted-rule scorer `predict`, its zod input schema, and the simulated *)
(* `retrainModel` that perturbs and renormalises the weight table.         *)
(*                                                                         *)
(* Numbers.  The source computes in IEEE doubles; the model computes in    *)
(* exact rational arithmetic on integers:                                  *)
(*   - creditScore is held in half points (1401 is 700.5),                 *)
(*   - employmentLength, delinquenciesLast2Years, inquiriesLast6Months in  *)
(*     halves (1 is 0.5),                                                  *)
(*   - debtToIncome in hundredths (43 is 0.43),                            *)
(*   - annualIncome and loanAmount in whole dollars,                       *)
(*   - a band value (1.0, 0.8, ...) in tenths, a penalty or bonus in       *)
(*     tenths too (-50 is -500),                                           *)
(*   - the ten weights as numerators modelWeights[k] over the common       *)
(*     denominator weightDen (weight k is modelWeights[k] / weightDen;     *)
(*     weightDen = 0 stands for NaN, the result of dividing by a zero      *)
(*     total),                                                             *)
(*   - an unrounded score as the numerator n of n * 100 / weightDen,       *)
(*   - a probability in 1/10000, from a table of exp at steps of 1/4 with  *)
(*     linear interpolation (exact at the centre: exp(0) = 1).             *)
(***************************************************************************)
EXTENDS Integers, Sequences, FiniteSets

VARIABLES
    modelWeights,   \* this.modelWeights: numerators, by feature
    weightDen,      \* the common denominator of modelWeights
    metrics,        \* this.metrics
    timers,         \* retrainModel calls suspended at their await, in timer order
    retrainCalls,   \* number of retrainModel calls made so far
    input,          \* the argument of the latest predict call
    outcome,        \* what the latest predict call did: returned or threw
    locals,         \* predict's local values in the latest call that scored
    requestData,    \* the argument of the latest validateLoanData call
    validation,     \* what the latest validateLoanData call returned
    earlier,        \* the result of the predict call before the latest, while its caller keeps it
    inputs,         \* the argument of the latest batchPredict call
    batch,          \* what the latest batchPredict call did: returned or threw
    snapshots,      \* the objects a caller holds from getFeatureImportance and getModelMetrics
    drift,          \* the latest calculateDrift call: its arguments and what it returned
    mlPrediction,   \* what calculateMLPrediction returned in the latest applications POST
    db,             \* the loanId values of the loanApplication rows in the database
    imports         \* the CSV import requests in progress, by request

vars ==
    <<modelWeights, weightDen, metrics, timers, retrainCalls, input, outcome, locals,
      requestData, validation, earlier, inputs, batch, snapshots, drift, mlPrediction,
      db, imports>>

----------------------------------------------------------------------------
(* Bounds of the model *)

\* retrainModel is called at most this many times in a behaviour
MaxRetrains == 2

\* retrainModel is called at most this many times where the metrics are followed
MaxMetricRetrains == 3

\* calculateDrift is called with at most this many recent predictions
MaxPredictions == 5

----------------------------------------------------------------------------
(* Arithmetic helpers *)

Max(a, b) == IF a >= b THEN a ELSE b

Min(a, b) == IF a <= b THEN a ELSE b

Abs(a) == IF a >= 0 THEN a ELSE -a

RECURSIVE Gcd(_, _)
Gcd(a, b) == IF b = 0 THEN Abs(a) ELSE Gcd(b, a % b)

\* Object.keys(this.modelWeights): the insertion order of the constructor
WeightKeys ==
    << "creditScore", "debtToIncome", "annualIncome", "employmentLength",
       "hasDerogatory", "delinquenciesLast2Years", "inquiriesLast6Months",
       "loanAmount", "homeOwnership", "verificationStatus" >>

KeySet == { WeightKeys[i] : i \in 1..Len(WeightKeys) }

RECURSIVE SumUpTo(_, _)
SumUpTo(f, n) == IF n = 0 THEN 0 ELSE f[WeightKeys[n]] + SumUpTo(f, n - 1)

\* Object.values(w).reduce((sum, weight) => sum + weight, 0)
SumWeights(f) == SumUpTo(f, Len(WeightKeys))

RECURSIVE GcdUpTo(_, _)
GcdUpTo(f, n) == IF n = 0 THEN 0 ELSE Gcd(f[WeightKeys[n]], GcdUpTo(f, n - 1))

\* The same ten rationals over their least common denominator: the stored
\* doubles do not remember the scale they were computed in.
Lowest(w, den) ==
    LET g == Gcd(GcdUpTo(w, Len(WeightKeys)), den)
    IN  IF g = 0
        THEN [w |-> w, den |-> den]
        ELSE [w |-> [k \in KeySet |-> w[k] \div g], den |-> den \div g]

----------------------------------------------------------------------------
(* The input schema *)

LoanPurposes == {"home_loan", "auto_loan", "personal_loan", "debt_consolidation", "business_loan"}

HomeOwnerships == {"own", "rent", "mortgage"}

VerificationStatuses == {"verified", "source_verified", "not_verified"}

\* One zod issue: the path of the field and the code of the failed check
Issue(field, code) == << [field |-> field, code |-> code] >>

\* MinMax with the upper bound not checked
MinMaxNoUpper(field, v, lo, hi) ==
    IF v < lo THEN Issue(field, "too_small") ELSE << >>

\* z.number().min(lo).max(hi)
MinMax(field, v, lo, hi) ==
    IF v < lo THEN Issue(field, "too_small")
    ELSE IF v > hi THEN Issue(field, "too_big")
    ELSE << >>

\* AtLeast with the bound itself rejected
AtLeastStrict(field, v, lo) == IF v <= lo THEN Issue(field, "too_small") ELSE << >>

\* z.number().min(lo)
AtLeast(field, v, lo) == IF v < lo THEN Issue(field, "too_small") ELSE << >>

\* z.number().positive()
Positive(field, v) == IF v <= 0 THEN Issue(field, "too_small") ELSE << >>

\* z.enum([...])
OneOf(field, v, allowed) ==
    IF v \in allowed THEN << >> ELSE Issue(field, "invalid_enum_value")

\* A schema that aborts at the first key with an issue
SchemaFailFast(in) ==
    LET all ==
            MinMax("creditScore", in.creditScore, 2 * 300, 2 * 850)
            \o Positive("annualIncome", in.annualIncome)
            \o AtLeast("employmentLength", in.employmentLength, 0)
            \o Positive("loanAmount", in.loanAmount)
            \o OneOf("loanPurpose", in.loanPurpose, LoanPurposes)
            \o MinMax("debtToIncome", in.debtToIncome, 0, 100)
            \o AtLeast("delinquenciesLast2Years", in.delinquenciesLast2Years, 0)
            \o AtLeast("inquiriesLast6Months", in.inquiriesLast6Months, 0)
            \o OneOf("homeOwnership", in.homeOwnership, HomeOwnerships)
            \o OneOf("verificationStatus", in.verificationStatus, VerificationStatuses)
    IN  IF all = << >> THEN << >> ELSE << Head(all) >>

\* LoanPredictionInputSchema: z.object checks every key, in the order of the
\* shape, and collects the issues of all of them. z.boolean() on hasDerogatory
\* has no issue to raise here: the model's profiles carry a boolean there.
LoanPredictionInputSchema(in) ==
    MinMax("creditScore", in.creditScore, 2 * 300, 2 * 850)
    \o Positive("annualIncome", in.annualIncome)
    \o AtLeast("employmentLength", in.employmentLength, 0)
    \o Positive("loanAmount", in.loanAmount)
    \o OneOf("loanPurpose", in.loanPurpose, LoanPurposes)
    \o MinMax("debtToIncome", in.debtToIncome, 0, 100)
    \o AtLeast("delinquenciesLast2Years", in.delinquenciesLast2Years, 0)
    \o AtLeast("inquiriesLast6Months", in.inquiriesLast6Months, 0)
    \o OneOf("homeOwnership", in.homeOwnership, HomeOwnerships)
    \o OneOf("verificationStatus", in.verificationStatus, VerificationStatuses)

\* validateInput: parse returns the input, or throws a ZodError with the issues
validateInput(in) ==
    LET issues == LoanPredictionInputSchema(in)
    IN  IF issues = << >>
        THEN [kind |-> "ok", issues |-> << >>]
        ELSE [kind |-> "ZodError", issues |-> issues]

\* The route's answer to a ZodError: error.errors.map(err => ({ field:
\* err.path.join('.'), message: err.message })); the message is told by its code
details(issues) ==
    [ i \in DOMAIN issues |-> [field |-> issues[i].field, message |-> issues[i].code] ]

----------------------------------------------------------------------------
(* The band functions (values in tenths) *)

\* The credit bands with the top two values exchanged
CreditBandsExchanged(creditScore) ==
    IF creditScore >= 2 * 750 THEN 8
    ELSE IF creditScore >= 2 * 700 THEN 10
    ELSE IF creditScore >= 2 * 650 THEN 6
    ELSE IF creditScore >= 2 * 600 THEN 4
    ELSE IF creditScore >= 2 * 550 THEN 2
    ELSE 1

calculateCreditScoreComponent(creditScore) ==
    IF creditScore >= 2 * 750 THEN 10
    ELSE IF creditScore >= 2 * 700 THEN 8
    ELSE IF creditScore >= 2 * 650 THEN 6
    ELSE IF creditScore >= 2 * 600 THEN 4
    ELSE IF creditScore >= 2 * 550 THEN 2
    ELSE 1

\* The debt-to-income bands with two middle values exchanged
DtiBandsExchanged(dti) ==
    IF dti <= 15 THEN 10
    ELSE IF dti <= 25 THEN 8
    ELSE IF dti <= 35 THEN 4
    ELSE IF dti <= 43 THEN 6
    ELSE 1

calculateDebtToIncomeComponent(dti) ==
    IF dti <= 15 THEN 10
    ELSE IF dti <= 25 THEN 8
    ELSE IF dti <= 35 THEN 6
    ELSE IF dti <= 43 THEN 4
    ELSE 1

calculateIncomeComponent(income) ==
    IF income >= 100000 THEN 10
    ELSE IF income >= 75000 THEN 8
    ELSE IF income >= 50000 THEN 6
    ELSE IF income >= 35000 THEN 4
    ELSE IF income >= 25000 THEN 2
    ELSE 1

calculateEmploymentComponent(years) ==
    IF years >= 2 * 5 THEN 10
    ELSE IF years >= 2 * 3 THEN 8
    ELSE IF years >= 2 * 2 THEN 6
    ELSE IF years >= 2 * 1 THEN 4
    ELSE 2

\* loanAmount / income <= 0.2 is 5 * loanAmount <= income for income > 0; for
\* income = 0 the quotient is Infinity and every comparison is false, as here.
calculateLoanAmountComponent(loanAmount, income) ==
    IF income > 0 /\ 5 * loanAmount <= income THEN 10
    ELSE IF income > 0 /\ 10 * loanAmount <= 3 * income THEN 8
    ELSE IF income > 0 /\ 5 * loanAmount <= 2 * income THEN 6
    ELSE IF income > 0 /\ 2 * loanAmount <= income THEN 4
    ELSE 2

\* The home-ownership bonus without the bonus for owners
HomeOwnershipNoBonus(homeOwnership) ==
    CASE homeOwnership = "mortgage" -> 150
      [] homeOwnership = "rent" -> 50
      [] OTHER -> 0

calculateHomeOwnershipBonus(homeOwnership) ==
    CASE homeOwnership = "own" -> 200
      [] homeOwnership = "mortgage" -> 150
      [] homeOwnership = "rent" -> 50
      [] OTHER -> 0

calculateVerificationBonus(status) ==
    CASE status = "verified" -> 150
      [] status = "source_verified" -> 100
      [] status = "not_verified" -> 0
      [] OTHER -> 0

\* A derogatory penalty of -5
DerogatoryPenaltyFive(in) == IF in.hasDerogatory THEN -50 ELSE 0

\* hasDerogatory ? -50 : 0
derogatoryPenalty(in) == IF in.hasDerogatory THEN -500 ELSE 0

\* The delinquency penalty with its sign lost
DelinquencyReward(in) == in.delinquenciesLast2Years * 50

\* delinquenciesLast2Years * -10 (the count is in halves)
delinquencyPenalty(in) == in.delinquenciesLast2Years * (-50)

\* The inquiry penalty at twice its size
InquiryPenaltyDoubled(in) == in.inquiriesLast6Months * (-50)

\* inquiriesLast6Months * -5 (the count is in halves)
inquiryPenalty(in) == in.inquiriesLast6Months * (-25)

\* The ten components of predict, by the weight each is multiplied with
Components(in) ==
    [k \in KeySet |->
        CASE k = "creditScore" -> calculateCreditScoreComponent(in.creditScore)
          [] k = "debtToIncome" -> calculateDebtToIncomeComponent(in.debtToIncome)
          [] k = "annualIncome" -> calculateIncomeComponent(in.annualIncome)
          [] k = "employmentLength" -> calculateEmploymentComponent(in.employmentLength)
          [] k = "hasDerogatory" -> derogatoryPenalty(in)
          [] k = "delinquenciesLast2Years" -> delinquencyPenalty(in)
          [] k = "inquiriesLast6Months" -> inquiryPenalty(in)
          [] k = "loanAmount" -> calculateLoanAmountComponent(in.loanAmount, in.annualIncome)
          [] k = "homeOwnership" -> calculateHomeOwnershipBonus(in.homeOwnership)
          [] k = "verificationStatus" -> calculateVerificationBonus(in.verificationStatus)]

RECURSIVE DotUpTo(_, _, _)
DotUpTo(c, w, n) ==
    IF n = 0 THEN 0
    ELSE c[WeightKeys[n]] * w[WeightKeys[n]] + DotUpTo(c, w, n - 1)

\* A raw score that the loan purpose moves
RawScoreByPurpose(in, w) ==
    DotUpTo(Components(in), w, Len(WeightKeys))
        + (IF in.loanPurpose = "home_loan" THEN w["creditScore"] ELSE 0)

\* rawScore = (sum of component * weight) * 1000, as the numerator n of
\* n * 100 / den: components are in tenths and weights are numerators over den.
rawScore(in, w) == DotUpTo(Components(in), w, Len(WeightKeys))

\* The clamp without its upper limit
ClampNoUpper(raw, den) == Max(0, raw)

\* Math.max(0, Math.min(1000, rawScore)): 1000 is the numerator 10 * den
clampScore(raw, den) == Max(0, Min(10 * den, raw))

\* Math.round(score): the nearest integer, halves upwards
roundScore(n, den) == (200 * n + den) \div (2 * den)

\* exp(-k/4) in 1/10000 for k = -13 .. 8, the range of (score - 650) / 200
ExpTable ==
    << 257903, 200855, 156426, 121825, 94877, 73891, 57546, 44817, 34903, 27183,
       21170, 16487, 12840, 10000, 7788, 6065, 4724, 3679, 2865, 2231, 1738, 1353 >>

\* Math.exp(-t / (4 * den)) in 1/10000: the table value at the step below, moved
\* towards the next one by hundredths of a step. A clamped score keeps t within
\* -13 * den .. 7 * den; beyond the table its end values stand.
expNeg(t, den) ==
    LET k == t \div den
        r == t - k * den
    IN  IF k < -13 THEN ExpTable[1]
        ELSE IF k > 7 THEN ExpTable[22]
        ELSE ExpTable[k + 14]
             + ((ExpTable[k + 15] - ExpTable[k + 14]) * ((100 * r) \div den)) \div 100

\* scoreToTprobability: normalizedScore = (score - 650) / 200 is
\* (2 * n - 13 * den) / (4 * den); returns 1 / (1 + exp(-normalizedScore))
scoreToTprobability(n, den) ==
    (10000 * 10000) \div (10000 + expNeg(2 * n - 13 * den, den))

\* The decision with a strict comparison
DecideStrict(probability) == IF probability > 5000 THEN "approved" ELSE "denied"

\* probability >= 0.5 ? 'approved' : 'denied'
decide(probability) == IF probability >= 5000 THEN "approved" ELSE "denied"

\* the number of confidence factors that hold
confidenceFactors(n, den, in) ==
      (IF in.creditScore >= 2 * 750 \/ in.creditScore <= 2 * 550 THEN 1 ELSE 0)
    + (IF in.debtToIncome <= 20 \/ in.debtToIncome >= 40 THEN 1 ELSE 0)
    + (IF in.annualIncome >= 100000 \/ in.annualIncome <= 30000 THEN 1 ELSE 0)
    + (IF in.employmentLength >= 2 * 5 \/ in.employmentLength < 2 * 1 THEN 1 ELSE 0)
    + (IF in.hasDerogatory THEN 1 ELSE 0)
    + (IF in.delinquenciesLast2Years >= 2 * 3 THEN 1 ELSE 0)
    + (IF n >= 8 * den \/ n <= 4 * den THEN 1 ELSE 0)

\* The confidence tiers with 'high' from three factors on
ConfidenceHighFromThree(n, den, in) ==
    LET factors == confidenceFactors(n, den, in)
    IN  IF factors >= 3 THEN "high"
        ELSE IF factors >= 2 THEN "medium"
        ELSE "low"

calculateConfidence(n, den, in) ==
    LET factors == confidenceFactors(n, den, in)
    IN  IF factors >= 4 THEN "high"
        ELSE IF factors >= 2 THEN "medium"
        ELSE "low"

\* if (cond) list.push(text)
Push(cond, text) == IF cond THEN << text >> ELSE << >>

generateReasons(in, prediction) ==
    IF prediction = "approved"
    THEN   (IF in.creditScore >= 2 * 750
            THEN << "Excellent credit score demonstrates strong payment history" >>
            ELSE Push(in.creditScore >= 2 * 700,
                      "Good credit score indicates reliable payment behavior"))
        \o Push(in.debtToIncome <= 25,
                "Low debt-to-income ratio shows strong financial capacity")
        \o Push(in.annualIncome >= 75000,
                "High annual income provides strong repayment ability")
        \o Push(in.employmentLength >= 2 * 3, "Stable employment history reduces risk")
        \o Push(~in.hasDerogatory, "Clean credit history with no major derogatory marks")
        \o Push(in.homeOwnership = "own", "Home ownership indicates financial stability")
        \o Push(in.verificationStatus = "verified",
                "Verified income information increases confidence")
    ELSE   Push(in.creditScore < 2 * 600,
                "Credit score below acceptable threshold indicates high risk")
        \o Push(in.debtToIncome > 43,
                "High debt-to-income ratio exceeds lending guidelines")
        \o Push(in.annualIncome < 30000, "Low income may not support loan repayment")
        \o Push(in.hasDerogatory, "Derogatory marks on credit report raise concerns")
        \o Push(in.delinquenciesLast2Years >= 2 * 2,
                "Recent payment delinquencies indicate repayment risk")
        \o Push(in.inquiriesLast6Months >= 2 * 5,
                "Multiple recent credit inquiries suggest financial stress")
        \o Push(in.employmentLength < 2 * 1,
                "Short employment history increases income stability risk")
        \o Push(2 * in.loanAmount > in.annualIncome,
                "Loan amount is too high relative to annual income")

\* The risk factors without the entry for derogatory marks
RiskFactorsNoDerogatory(in) ==
       Push(in.creditScore < 2 * 650, "Below-average credit score")
    \o Push(in.debtToIncome > 35, "High debt-to-income ratio")
    \o Push(in.delinquenciesLast2Years > 0, "Recent payment delinquencies")
    \o Push(in.inquiriesLast6Months > 2 * 3, "Multiple recent credit inquiries")
    \o Push(in.employmentLength < 2 * 2, "Short employment history")
    \o Push(in.annualIncome < 40000, "Lower income level")
    \o Push(in.verificationStatus = "not_verified", "Unverified income")

identifyRiskFactors(in) ==
       Push(in.creditScore < 2 * 650, "Below-average credit score")
    \o Push(in.debtToIncome > 35, "High debt-to-income ratio")
    \o Push(in.hasDerogatory, "Derogatory credit marks")
    \o Push(in.delinquenciesLast2Years > 0, "Recent payment delinquencies")
    \o Push(in.inquiriesLast6Months > 2 * 3, "Multiple recent credit inquiries")
    \o Push(in.employmentLength < 2 * 2, "Short employment history")
    \o Push(in.annualIncome < 40000, "Lower income level")
    \o Push(in.verificationStatus = "not_verified", "Unverified income")

\* The positive factors with "Good credit score" from 650 on
PositiveFactorsFromFair(in) ==
       Push(in.creditScore >= 2 * 750, "Excellent credit score")
    \o Push(in.creditScore >= 2 * 650 /\ in.creditScore < 2 * 750, "Good credit score")
    \o Push(in.debtToIncome <= 25, "Low debt-to-income ratio")
    \o Push(in.annualIncome >= 75000, "High annual income")
    \o Push(in.employmentLength >= 2 * 5, "Long employment history")
    \o Push(~in.hasDerogatory, "Clean credit history")
    \o Push(in.delinquenciesLast2Years = 0, "No recent delinquencies")
    \o Push(in.homeOwnership = "own", "Home ownership")
    \o Push(in.verificationStatus = "verified", "Verified income")

identifyPositiveFactors(in) ==
       Push(in.creditScore >= 2 * 750, "Excellent credit score")
    \o Push(in.creditScore >= 2 * 700 /\ in.creditScore < 2 * 750, "Good credit score")
    \o Push(in.debtToIncome <= 25, "Low debt-to-income ratio")
    \o Push(in.annualIncome >= 75000, "High annual income")
    \o Push(in.employmentLength >= 2 * 5, "Long employment history")
    \o Push(~in.hasDerogatory, "Clean credit history")
    \o Push(in.delinquenciesLast2Years = 0, "No recent delinquencies")
    \o Push(in.homeOwnership = "own", "Home ownership")
    \o Push(in.verificationStatus = "verified", "Verified income")

\* A score that moves with the number of retrainModel calls made so far
ScoreDrifting(in, w, den) == clampScore(rawScore(in, w) + retrainCalls * den, den)

\* The clamped, unrounded score of predict, as a numerator over den
scoreOf(in, w, den) == clampScore(rawScore(in, w), den)

\* The PredictionResult of a validated input. featureImportance is the
\* service's own weight object, not a copy of it.
PredictionResult(in, w, den) ==
    LET score == scoreOf(in, w, den)
        probability == scoreToTprobability(score, den)
        prediction == decide(probability)
    IN  [ prediction |-> prediction,
          probability |-> probability,
          confidence |-> calculateConfidence(score, den, in),
          score |-> roundScore(score, den),
          reasons |-> generateReasons(in, prediction),
          featureImportance |-> "this.modelWeights",
          riskFactors |-> identifyRiskFactors(in),
          positiveFactors |-> identifyPositiveFactors(in) ]

\* What a result's featureImportance holds when it is read: the service's
\* weight table as it is at that moment
featureImportance(result) ==
    IF result.featureImportance = "this.modelWeights"
    THEN [w |-> modelWeights, den |-> weightDen]
    ELSE [w |-> << >>, den |-> 0]

NoResult == [ prediction |-> "none" ]

\* predict: validate, then score; a ZodError leaves no result
predict(in, w, den) ==
    LET v == validateInput(in)
    IN  IF v.kind = "ZodError"
        THEN [kind |-> "threw", issues |-> v.issues, result |-> NoResult]
        ELSE [kind |-> "returned", issues |-> << >>, result |-> PredictionResult(in, w, den)]

\* batchPredict: inputs.map(input => this.predict(input)); the first input that
\* fails validation throws out of the map and no array is returned
batchPredict(ins, w, den) ==
    LET each == [i \in 1..Len(ins) |-> predict(ins[i], w, den)]
        thrown == { i \in 1..Len(ins) : each[i].kind = "threw" }
        first == CHOOSE i \in thrown : \A j \in thrown : i <= j
    IN  IF thrown = { }
        THEN [kind |-> "returned", issues |-> << >>,
              results |-> [i \in 1..Len(ins) |-> each[i].result]]
        ELSE [kind |-> "threw", issues |-> each[first].issues, results |-> << >>]

----------------------------------------------------------------------------
(* retrainModel *)

\* const weightAdjustment = 0.05, in 1/1000
weightAdjustment == 50

\* (Math.random() - 0.5) * weightAdjustment in 1/1000, for a draw in tenths
adjustment(draw) == ((draw - 5) * weightAdjustment) \div 10

\* The first forEach without Math.max(0, ...)
PerturbNoFloor(w, den, draws) ==
    [k \in KeySet |-> w[k] * 1000 + adjustment(draws[k]) * den]

\* The first forEach: Math.max(0, currentWeight + adjustment) for every key.
\* The numerators that come out are over the denominator 1000 * den.
perturbWeights(w, den, draws) ==
    [k \in KeySet |-> Max(0, w[k] * 1000 + adjustment(draws[k]) * den)]

\* The second forEach left out: the perturbed weights stay as they are
NormalizeSkipped(p, pden) == [w |-> p, den |-> pden]

\* The second forEach: every weight divided by totalWeight, the sum of the
\* perturbed weights. p[k] / (1000 * den) divided by total / (1000 * den) is
\* p[k] / total, whatever the denominator pden the perturbed weights are over;
\* a zero total gives NaN (den = 0).
normalizeWeights(p, pden) ==
    LET totalWeight == SumWeights(p)
    IN  Lowest(p, totalWeight)

\* The improvement without Math.min(0.95, ...)
ImprovedNoCap(metric, draw) == metric + draw

\* Math.min(0.95, metric + Math.random() * 0.02), in 1/1000
improved(metric, draw) == Min(950, metric + draw)

\* trainingData?.length || this.metrics.trainingSize + Math.floor(Math.random() * 1000)
\* (an absent array and an empty one both fall through the ||)
nextTrainingSize(trainingData, trainingSize, draw) ==
    IF trainingData.given /\ trainingData.length # 0
    THEN trainingData.length
    ELSE trainingSize + draw

\* The metrics record retrainModel assigns. lastTrained is new Date(): the
\* model's clock is the number of retrains that have completed.
retrainedMetrics(m, trainingData, d) ==
    [ accuracy |-> improved(m.accuracy, d.accuracy),
      precision |-> improved(m.precision, d.precision),
      recall |-> improved(m.recall, d.recall),
      f1Score |-> improved(m.f1Score, d.f1Score),
      lastTrained |-> m.lastTrained + 1,
      trainingSize |-> nextTrainingSize(trainingData, m.trainingSize, d.size) ]

----------------------------------------------------------------------------
(* getFeatureImportance, getModelMetrics and calculateDrift *)

\* An object a caller holds is a copy with its own values or the service's own
\* object; `assigned` tells that the caller has assigned to a field of it.
NoObject == [kind |-> "none"]

\* A getFeatureImportance that returns the service's own object
GetFeatureImportanceAlias == [kind |-> "this.modelWeights", assigned |-> FALSE]

\* return { ...this.modelWeights }
getFeatureImportance ==
    [kind |-> "copy", value |-> [w |-> modelWeights, den |-> weightDen], assigned |-> FALSE]

\* return { ...this.metrics }
getModelMetrics == [kind |-> "copy", value |-> metrics, assigned |-> FALSE]

\* What reading an object gives: a copy's own values, or the service's values
\* as they are at that moment
ReadObject(obj) ==
    CASE obj.kind = "copy" -> obj.value
      [] obj.kind = "this.modelWeights" -> [w |-> modelWeights, den |-> weightDen]
      [] obj.kind = "this.metrics" -> metrics
      [] OTHER -> NoObject

RECURSIVE SumScores(_, _)
SumScores(predictions, n) ==
    IF n = 0 THEN 0 ELSE predictions[n].score + SumScores(predictions, n - 1)

\* Math.abs(approvalRate - 0.65) > 0.15 for approvalRate = approved / n, as
\* the doubles decide it: 0.5 - 0.65 and 0.8 - 0.65 both come out as
\* 0.15000000000000002 in magnitude, above the double 0.15; every other
\* quotient of the model compares as the exact values do
deviates(approved, n) ==
    \/ Abs(100 * approved - 65 * n) > 15 * n
    \/ 2 * approved = n
    \/ 5 * approved = 4 * n

\* calculateDrift(recentPredictions), called `days` whole days after
\* this.metrics.lastTrained. A quotient is held as [num, den].
calculateDrift(recentPredictions, days) ==
    LET n == Len(recentPredictions)
        approved == Cardinality({ i \in 1..n : recentPredictions[i].prediction = "approved" })
        with(c) == Cardinality({ i \in 1..n : recentPredictions[i].confidence = c })
    IN  IF n = 0
        THEN [ approvalRate |-> [num |-> 0, den |-> 1],
               averageScore |-> [num |-> 0, den |-> 1],
               confidenceDistribution |->
                   [high |-> [num |-> 0, den |-> 1], medium |-> [num |-> 0, den |-> 1],
                    low |-> [num |-> 0, den |-> 1]],
               needsRetraining |-> FALSE ]
        ELSE [ approvalRate |-> [num |-> approved, den |-> n],
               averageScore |-> [num |-> SumScores(recentPredictions, n), den |-> n],
               confidenceDistribution |->
                   [high |-> [num |-> with("high"), den |-> n],
                    medium |-> [num |-> with("medium"), den |-> n],
                    low |-> [num |-> with("low"), den |-> n]],
               needsRetraining |->
                   \/ deviates(approved, n)
                   \/ 10 * with("low") > 3 * n
                   \/ days > 90 ]

----------------------------------------------------------------------------
(* validateLoanData of the applications route *)

\* The values a field of the parsed request body holds. A number is held in
\* halves (91 is 45.5).
Undefined == [type |-> "undefined"]

Null == [type |-> "null"]

Str(s) == [type |-> "string", text |-> s]

Num(n) == [type |-> "number", halves |-> n]

\* !value
Falsy(v) ==
    \/ v.type \in { "undefined", "null" }
    \/ v.type = "string" /\ v.text = ""
    \/ v.type = "number" /\ v.halves = 0

\* value.trim().length === 0, for the strings of the model
TrimsToEmpty(v) == v.text \in { "", "   " }

NaN == [nan |-> TRUE, halves |-> 0]

\* parseFloat(value): a number is itself, a string is its numeric prefix, if it
\* has one; "700" and "45.5" are the numerals among the strings of the model
parseFloat(v) ==
    CASE v.type = "number" -> [nan |-> FALSE, halves |-> v.halves]
      [] v.type = "string" /\ v.text = "700" -> [nan |-> FALSE, halves |-> 2 * 700]
      [] v.type = "string" /\ v.text = "45.5" -> [nan |-> FALSE, halves |-> 2 * 45 + 1]
      [] OTHER -> NaN

\* parseInt(value): the digits before the decimal point
parseInt(v) ==
    LET x == parseFloat(v)
    IN  IF x.nan THEN NaN
        ELSE IF x.halves >= 0 THEN [nan |-> FALSE, halves |-> 2 * (x.halves \div 2)]
        ELSE [nan |-> FALSE, halves |-> -(2 * ((-x.halves) \div 2))]

\* !data.f || typeof data.f !== 'string'
notAString(v) == Falsy(v) \/ v.type # "string"

\* isNaN(x) || x < lo || x > hi
outOfRange(x, lo, hi) == x.nan \/ x.halves < 2 * lo \/ x.halves > 2 * hi

\* The conditions of validateLoanData's checks, in the order of the code
applicantNameInvalid(data) ==
    notAString(data.applicant_name) \/ TrimsToEmpty(data.applicant_name)

loanAmountInvalid(data) ==
    LET loanAmount == parseFloat(data.loan_amount)
    IN  loanAmount.nan \/ loanAmount.halves <= 0 \/ loanAmount.halves > 2 * 10000000

collateralValueInvalid(data) ==
    /\ data.collateral_value.type \notin { "undefined", "null" }
    /\ data.collateral_value # Str("")
    /\ LET collateralValue == parseFloat(data.collateral_value)
       IN  collateralValue.nan \/ collateralValue.halves < 0

\* The checks of validateLoanData: each a condition and the message pushed
\* when it holds
LoanDataChecks(data) ==
    << [failed |-> applicantNameInvalid(data), message |-> "Applicant name is required"],
       [failed |-> notAString(data.employment_status),
        message |-> "Employment status is required"],
       [failed |-> notAString(data.loan_purpose), message |-> "Loan purpose is required"],
       [failed |-> notAString(data.education_level),
        message |-> "Education level is required"],
       [failed |-> notAString(data.marital_status),
        message |-> "Marital status is required"],
       [failed |-> notAString(data.property_ownership),
        message |-> "Property ownership is required"],
       [failed |-> loanAmountInvalid(data),
        message |-> "Loan amount must be between $1 and $10,000,000"],
       [failed |-> outOfRange(parseFloat(data.annual_income), 0, 10000000),
        message |-> "Annual income must be between $0 and $10,000,000"],
       [failed |-> outOfRange(parseInt(data.credit_score), 300, 850),
        message |-> "Credit score must be between 300 and 850"],
       [failed |-> outOfRange(parseFloat(data.employment_length), 0, 50),
        message |-> "Employment length must be between 0 and 50 years"],
       [failed |-> outOfRange(parseFloat(data.debt_to_income_ratio), 0, 100),
        message |-> "Debt-to-income ratio must be between 0% and 100%"],
       [failed |-> outOfRange(parseInt(data.existing_loans), 0, 50),
        message |-> "Number of existing loans must be between 0 and 50"],
       [failed |-> outOfRange(parseInt(data.age), 18, 100),
        message |-> "Age must be between 18 and 100"],
       [failed |-> outOfRange(parseInt(data.number_dependents), 0, 20),
        message |-> "Number of dependents must be between 0 and 20"],
       [failed |-> collateralValueInvalid(data),
        message |-> "Collateral value must be a positive number"] >>

\* errors after the first n checks: every failed check has pushed its message
RECURSIVE PushFailed(_, _)
PushFailed(checks, n) ==
    IF n = 0 THEN << >>
    ELSE PushFailed(checks, n - 1) \o Push(checks[n].failed, checks[n].message)

validateLoanData(data) ==
    LET errors == PushFailed(LoanDataChecks(data), Len(LoanDataChecks(data)))
    IN  [kind |-> "returned", isValid |-> Len(errors) = 0, errors |-> errors]

----------------------------------------------------------------------------
(* calculateMLPrediction of the applications route *)

\* value?.trim(), for the strings of the model
trim(v) ==
    IF v.type # "string" THEN v
    ELSE CASE v.text = "   " -> Str("")
           [] v.text = " PhD " -> Str("PhD")
           [] OTHER -> v

\* requestData.collateral_value ? parseFloat(requestData.collateral_value) : undefined
normalizedCollateral(v) ==
    IF Falsy(v) THEN [given |-> FALSE, halves |-> 0]
    ELSE [given |-> TRUE, halves |-> parseFloat(v).halves]

\* The loanData object POST builds from a validated request body; numbers in
\* halves
normalizedLoanData(data) ==
    [ applicant_name |-> trim(data.applicant_name).text,
      loan_amount |-> parseFloat(data.loan_amount).halves,
      annual_income |-> parseFloat(data.annual_income).halves,
      credit_score |-> parseInt(data.credit_score).halves,
      employment_status |-> trim(data.employment_status).text,
      employment_length |-> parseFloat(data.employment_length).halves,
      loan_purpose |-> trim(data.loan_purpose).text,
      debt_to_income_ratio |-> parseFloat(data.debt_to_income_ratio).halves,
      existing_loans |-> parseInt(data.existing_loans).halves,
      collateral_value |-> normalizedCollateral(data.collateral_value),
      education_level |-> trim(data.education_level).text,
      age |-> parseInt(data.age).halves,
      marital_status |-> trim(data.marital_status).text,
      number_dependents |-> parseInt(data.number_dependents).halves,
      property_ownership |-> trim(data.property_ownership).text ]

\* Each factor of calculateMLPrediction: the points it adds, its reason and
\* its condition, if it has one
Factor(points, reason) == [points |-> points, reasons |-> << reason >>, conditions |-> << >>]

FactorWith(points, reason, condition) ==
    [points |-> points, reasons |-> << reason >>, conditions |-> << condition >>]

NoFactor == [points |-> 0, reasons |-> << >>, conditions |-> << >>]

creditScoreFactor(data) ==
    IF data.credit_score >= 2 * 750 THEN Factor(30, "Excellent credit score")
    ELSE IF data.credit_score >= 2 * 700 THEN Factor(25, "Good credit score")
    ELSE IF data.credit_score >= 2 * 650 THEN Factor(20, "Fair credit score")
    ELSE IF data.credit_score >= 2 * 600 THEN Factor(15, "Below average credit score")
    ELSE Factor(5, "Poor credit score")

debtToIncomeFactor(data) ==
    IF data.debt_to_income_ratio <= 2 * 20 THEN Factor(25, "Excellent debt-to-income ratio")
    ELSE IF data.debt_to_income_ratio <= 2 * 30 THEN Factor(20, "Good debt-to-income ratio")
    ELSE IF data.debt_to_income_ratio <= 2 * 40
    THEN Factor(15, "Acceptable debt-to-income ratio")
    ELSE IF data.debt_to_income_ratio <= 2 * 50
    THEN FactorWith(10, "High debt-to-income ratio", "Consider debt consolidation")
    ELSE Factor(0, "Very high debt-to-income ratio")

\* incomeToLoanRatio = (annual_income / loan_amount) * 100 >= percent, for a
\* whole percent; loan_amount is positive in a validated body
incomeToLoanAtLeast(data, percent) ==
    (100 * data.annual_income) \div data.loan_amount >= percent

incomeToLoanFactor(data) ==
    IF incomeToLoanAtLeast(data, 300) THEN Factor(20, "Strong income relative to loan amount")
    ELSE IF incomeToLoanAtLeast(data, 200)
    THEN Factor(16, "Good income relative to loan amount")
    ELSE IF incomeToLoanAtLeast(data, 150)
    THEN Factor(12, "Adequate income relative to loan amount")
    ELSE IF incomeToLoanAtLeast(data, 100)
    THEN Factor(8, "Marginal income relative to loan amount")
    ELSE Factor(2, "Low income relative to loan amount")

employmentFactor(data) ==
    IF data.employment_status \in { "Employed", "Self-employed" }
    THEN IF data.employment_length >= 2 * 5 THEN Factor(15, "Stable long-term employment")
         ELSE IF data.employment_length >= 2 * 2 THEN Factor(12, "Good employment history")
         ELSE IF data.employment_length >= 2 * 1 THEN Factor(8, "Recent employment history")
         ELSE FactorWith(5, "Limited employment history",
                         "Provide additional income verification")
    ELSE Factor(0, "Unemployed or retired")

existingLoansFactor(data) ==
    IF data.existing_loans = 0 THEN Factor(10, "No existing loan obligations")
    ELSE IF data.existing_loans <= 2 * 2 THEN Factor(8, "Minimal existing loan obligations")
    ELSE IF data.existing_loans <= 2 * 4 THEN Factor(5, "Moderate existing loan obligations")
    ELSE Factor(2, "High number of existing loans")

\* data.collateral_value && data.collateral_value >= data.loan_amount * 0.8
collateralFactor(data) ==
    IF /\ data.collateral_value.given
       /\ data.collateral_value.halves # 0
       /\ 10 * data.collateral_value.halves >= 8 * data.loan_amount
    THEN Factor(5, "Strong collateral coverage")
    ELSE NoFactor

ageFactor(data) ==
    IF data.age >= 2 * 25 /\ data.age <= 2 * 55 THEN Factor(2, "Prime age demographic")
    ELSE NoFactor

\* 'Bachelor\s Degree' and 'Master\s Degree' of the source are the strings
\* "Bachelors Degree" and "Masters Degree"
educationFactor(data) ==
    IF data.education_level \in { "Bachelors Degree", "Masters Degree", "PhD" }
    THEN Factor(2, "Higher education level")
    ELSE NoFactor

\* The factors in the order of the code
MLFactors(data) ==
    << creditScoreFactor(data), debtToIncomeFactor(data), incomeToLoanFactor(data),
       employmentFactor(data), existingLoansFactor(data), collateralFactor(data),
       ageFactor(data), educationFactor(data) >>

RECURSIVE SumFactors(_, _)
SumFactors(factors, n) ==
    IF n = 0 THEN NoFactor
    ELSE LET rest == SumFactors(factors, n - 1)
         IN  [ points |-> rest.points + factors[n].points,
               reasons |-> rest.reasons \o factors[n].reasons,
               conditions |-> rest.conditions \o factors[n].conditions ]

\* maxScore: 30 + 25 + 20 + 15 + 10; the three bonuses add nothing to it
maxScore == 100

\* Math.round((score / maxScore) * 100)
approvalProbabilityOf(score) == (2 * 100 * score + maxScore) \div (2 * maxScore)

\* calculateMLPrediction(data) without the applicationId, which is drawn from
\* the clock and Math.random(). recommendedLoanAmount is in whole dollars,
\* Math.round(data.loan_amount * 0.8), and 0 stands for undefined.
calculateMLPrediction(data) ==
    LET sum == SumFactors(MLFactors(data), Len(MLFactors(data)))
        approvalProbability == approvalProbabilityOf(sum.points)
        decision == IF approvalProbability >= 75 THEN "APPROVED"
                    ELSE IF approvalProbability >= 50 THEN "REVIEW_REQUIRED"
                    ELSE "REJECTED"
        recommend == decision = "REVIEW_REQUIRED" /\ approvalProbability >= 60
    IN  [ approvalProbability |-> approvalProbability,
          riskScore |-> 100 - approvalProbability,
          decision |-> decision,
          reasons |-> sum.reasons,
          recommendedLoanAmount |->
              IF recommend THEN (8 * data.loan_amount + 10) \div 20 ELSE 0,
          conditions |->
              sum.conditions
              \o Push(decision = "REVIEW_REQUIRED", "Manual underwriting review required")
              \o Push(recommend, "Consider reducing loan amount") ]

----------------------------------------------------------------------------
(* The CSV import route *)

\* parseNumber(value) and parseInteger(value) on the cells of the model: null
\* for an empty cell, "null", "NULL" and a cell that is no numeral
Numerals == { "-1", "0", "1", "2", "128", "360", "5000" }

NumeralValue(text) ==
    CASE text = "-1" -> -1
      [] text = "0" -> 0
      [] text = "1" -> 1
      [] text = "2" -> 2
      [] text = "128" -> 128
      [] text = "360" -> 360
      [] text = "5000" -> 5000

parseNumber(value) ==
    IF value \in Numerals
    THEN [null |-> FALSE, value |-> NumeralValue(value)]
    ELSE [null |-> TRUE, value |-> 0]

parseInteger(value) == parseNumber(value)

\* !value?.trim(), for the cells of the model (the CSV parser has trimmed them)
Blank(value) == value = ""

\* `Row ${rowIndex + 1}: ...`; row is rowIndex + 1
RowError(row, text) == [row |-> row, text |-> text]

\* A required field with its allowed values
RequiredOneOf(row, value, name, allowed) ==
    IF Blank(value) THEN << RowError(row, name \o " is required") >>
    ELSE IF value \notin allowed THEN << RowError(row, name \o " is not an allowed value") >>
    ELSE << >>

\* validateRow(row, rowIndex), with n = rowIndex + 1
validateRow(row, n) ==
    Push(Blank(row.Loan_ID), RowError(n, "Loan_ID is required"))
    \o RequiredOneOf(n, row.Gender, "Gender", { "Male", "Female" })
    \o RequiredOneOf(n, row.Married, "Married", { "Yes", "No" })
    \o RequiredOneOf(n, row.Education, "Education", { "Graduate", "Not Graduate" })
    \o RequiredOneOf(n, row.Self_Employed, "Self_Employed", { "Yes", "No" })
    \o RequiredOneOf(n, row.Property_Area, "Property_Area", { "Urban", "Semiurban", "Rural" })
    \o RequiredOneOf(n, row.Loan_Status, "Loan_Status", { "Y", "N" })
    \o Push(~parseNumber(row.ApplicantIncome).null /\ parseNumber(row.ApplicantIncome).value < 0,
            RowError(n, "ApplicantIncome must be non-negative"))
    \o Push(~parseNumber(row.CoapplicantIncome).null
            /\ parseNumber(row.CoapplicantIncome).value < 0,
            RowError(n, "CoapplicantIncome must be non-negative"))
    \o Push(~parseNumber(row.LoanAmount).null /\ parseNumber(row.LoanAmount).value <= 0,
            RowError(n, "LoanAmount must be positive if provided"))
    \o Push(~parseInteger(row.Loan_Amount_Term).null
            /\ parseInteger(row.Loan_Amount_Term).value <= 0,
            RowError(n, "Loan_Amount_Term must be positive if provided"))
    \o Push(~parseInteger(row.Credit_History).null
            /\ parseInteger(row.Credit_History).value \notin { 0, 1 },
            RowError(n, "Credit_History must be 0 or 1 if provided"))

\* The ImportResult the loop starts from
importResult(records) ==
    [ totalRecords |-> Len(records), successfulInserts |-> 0, duplicateSkipped |-> 0,
      validationErrors |-> 0, errors |-> << >> ]

\* The end of an iteration: the next row, or the response after the last one
\* (status 200 when a row was inserted, 400 otherwise). `taken` keeps the
\* branch the loop took for each row.
nextRow(imp, branch) ==
    LET done == imp.i = Len(imp.records)
    IN  [ imp EXCEPT !.i = imp.i + 1,
                     !.taken = Append(imp.taken, branch),
                     !.pc = IF done THEN "done" ELSE "validateRow",
                     !.status = IF ~done THEN 0
                                ELSE IF imp.result.successfulInserts > 0 THEN 200 ELSE 400 ]

----------------------------------------------------------------------------
(* The inputs of the model *)

\* Concrete scenario A of the specification
ScenarioA ==
    [ creditScore |-> 2 * 780, annualIncome |-> 90000, employmentLength |-> 2 * 6,
      loanAmount |-> 15000, loanPurpose |-> "home_loan", debtToIncome |-> 18,
      hasDerogatory |-> FALSE, delinquenciesLast2Years |-> 0,
      inquiriesLast6Months |-> 2 * 1, homeOwnership |-> "own",
      verificationStatus |-> "verified" ]

\* Concrete scenario B of the specification
ScenarioB ==
    [ creditScore |-> 2 * 540, annualIncome |-> 22000, employmentLength |-> 1,
      loanAmount |-> 20000, loanPurpose |-> "personal_loan", debtToIncome |-> 55,
      hasDerogatory |-> TRUE, delinquenciesLast2Years |-> 2 * 3,
      inquiriesLast6Months |-> 2 * 6, homeOwnership |-> "rent",
      verificationStatus |-> "not_verified" ]

\* Scores exactly 650 under the constructor's weights
Score650 ==
    [ creditScore |-> 2 * 680, annualIncome |-> 60000, employmentLength |-> 2 * 6,
      loanAmount |-> 10000, loanPurpose |-> "auto_loan", debtToIncome |-> 30,
      hasDerogatory |-> FALSE, delinquenciesLast2Years |-> 0,
      inquiriesLast6Months |-> 0, homeOwnership |-> "rent",
      verificationStatus |-> "verified" ]

\* Scores exactly 649 under the constructor's weights
Score649 ==
    [ Score650 EXCEPT !.employmentLength = 1, !.loanAmount = 27000,
                      !.homeOwnership = "own" ]

\* Scores exactly 651 under the constructor's weights
Score651 ==
    [ Score650 EXCEPT !.employmentLength = 2 * 3, !.loanAmount = 21000,
                      !.homeOwnership = "mortgage",
                      !.verificationStatus = "source_verified" ]

\* Every band at its best: scores above 1000 before the clamp
TopProfile ==
    [ creditScore |-> 2 * 850, annualIncome |-> 100000, employmentLength |-> 2 * 5,
      loanAmount |-> 20000, loanPurpose |-> "business_loan", debtToIncome |-> 15,
      hasDerogatory |-> FALSE, delinquenciesLast2Years |-> 0,
      inquiriesLast6Months |-> 0, homeOwnership |-> "own",
      verificationStatus |-> "verified" ]

\* Every numeric field at the lower edge of what the schema accepts (1 is the
\* least positive amount of the model)
EdgeProfile ==
    [ creditScore |-> 2 * 300, annualIncome |-> 1, employmentLength |-> 0,
      loanAmount |-> 1, loanPurpose |-> "debt_consolidation", debtToIncome |-> 0,
      hasDerogatory |-> FALSE, delinquenciesLast2Years |-> 0,
      inquiriesLast6Months |-> 0, homeOwnership |-> "mortgage",
      verificationStatus |-> "source_verified" ]

\* Scores 649.54 once one retrainModel has drawn low for the keys drawn apart
\* and high for the others: below 650, and 650 when rounded
RoundsTo650 ==
    [ creditScore |-> 2 * 540, annualIncome |-> 30000, employmentLength |-> 2 * 6,
      loanAmount |-> 10000, loanPurpose |-> "personal_loan", debtToIncome |-> 30,
      hasDerogatory |-> FALSE, delinquenciesLast2Years |-> 0,
      inquiriesLast6Months |-> 0, homeOwnership |-> "rent",
      verificationStatus |-> "source_verified" ]

Bases == { ScenarioA, ScenarioB, Score650, Score649, Score651, TopProfile, EdgeProfile }

Fields ==
    { "creditScore", "annualIncome", "employmentLength", "loanAmount", "loanPurpose",
      "debtToIncome", "hasDerogatory", "delinquenciesLast2Years",
      "inquiriesLast6Months", "homeOwnership", "verificationStatus" }

\* Values a field takes in the model: the edges of its domain, of its bands and
\* of the thresholds of the reasons and factors, and values between integers
FieldValues(f) ==
    CASE f = "creditScore" ->
            { 2 * 299 + 1, 2 * 300, 2 * 549 + 1, 2 * 550, 2 * 600, 2 * 649 + 1, 2 * 650,
              2 * 700, 2 * 700 + 1, 2 * 749, 2 * 749 + 1, 2 * 750, 2 * 850,
              2 * 850 + 1, 2 * 851 }
      [] f = "annualIncome" ->
            { -1, 0, 1, 22000, 24999, 25000, 30000, 35000, 39999, 50000, 75000,
              90000, 100000 }
      [] f = "employmentLength" -> { -1, 0, 1, 2, 4, 6, 10, 12 }
      [] f = "loanAmount" -> { -1, 0, 1, 10000, 15000, 20000, 27000, 60000 }
      [] f = "loanPurpose" -> LoanPurposes \cup { "education" }
      [] f = "debtToIncome" -> { -1, 0, 15, 18, 20, 25, 26, 35, 40, 43, 44, 55, 100, 101 }
      [] f = "hasDerogatory" -> BOOLEAN
      [] f = "delinquenciesLast2Years" -> { -1, 0, 1, 2, 3, 4, 6 }
      [] f = "inquiriesLast6Months" -> { -1, 0, 1, 2, 4, 6, 7, 10, 12 }
      [] f = "homeOwnership" -> HomeOwnerships \cup { "other" }
      [] f = "verificationStatus" -> VerificationStatuses \cup { "unverified" }

\* Values of a field outside the domain the data model declares for it
OutOfDomainValues(f) ==
    CASE f = "creditScore" -> { 2 * 299 + 1, 2 * 700 + 1, 2 * 851 }
      [] f = "annualIncome" -> { -1 }
      [] f = "employmentLength" -> { -1 }
      [] f = "loanAmount" -> { -1, 0 }
      [] f = "loanPurpose" -> { "education" }
      [] f = "debtToIncome" -> { -1, 101 }
      [] f = "hasDerogatory" -> { }
      [] f = "delinquenciesLast2Years" -> { -1, 3 }
      [] f = "inquiriesLast6Months" -> { -1 }
      [] f = "homeOwnership" -> { "other" }
      [] f = "verificationStatus" -> { "unverified" }

\* A base profile with one field changed
OneFieldChanged ==
    UNION { { [b EXCEPT ![f] = v] : b \in Bases, v \in FieldValues(f) } : f \in Fields }

\* A scenario with one field changed to a value outside its domain
OneFieldOut ==
    UNION { { [b EXCEPT ![f] = v] : b \in { ScenarioA }, v \in OutOfDomainValues(f) }
            : f \in Fields }

\* A scenario with two fields changed to values outside their domains
TwoFieldsOut ==
    UNION { { [b EXCEPT ![f] = v] : b \in OneFieldOut, v \in OutOfDomainValues(f) }
            : f \in Fields }

\* Every field outside its domain at once
AllFieldsOut ==
    [ creditScore |-> 2 * 851, annualIncome |-> -1, employmentLength |-> -1,
      loanAmount |-> 0, loanPurpose |-> "education", debtToIncome |-> 101,
      hasDerogatory |-> TRUE, delinquenciesLast2Years |-> -1,
      inquiriesLast6Months |-> -1, homeOwnership |-> "other",
      verificationStatus |-> "unverified" ]

\* The arguments predict is called with
Profiles == OneFieldChanged \cup TwoFieldsOut \cup { AllFieldsOut, RoundsTo650 }

\* The profiles of the arrays batchPredict is called with
BatchProfiles == { ScenarioA, ScenarioB, Score650, AllFieldsOut }

\* The arguments batchPredict is called with: arrays of up to two profiles
Batches ==
    { << >> } \cup { << a >> : a \in BatchProfiles }
              \cup { << a, b >> : a \in BatchProfiles, b \in BatchProfiles }

\* A request body validateLoanData accepts
ValidLoanData ==
    [ applicant_name |-> Str("Ada"), employment_status |-> Str("employed"),
      loan_purpose |-> Str("home"), education_level |-> Str("bachelor"),
      marital_status |-> Str("single"), property_ownership |-> Str("own"),
      loan_amount |-> Num(2 * 25000), annual_income |-> Num(2 * 60000),
      credit_score |-> Num(2 * 700), employment_length |-> Num(2 * 5),
      debt_to_income_ratio |-> Num(2 * 30), existing_loans |-> Num(2 * 1),
      age |-> Num(2 * 35), number_dependents |-> Num(2 * 2),
      collateral_value |-> Undefined ]

TextFields ==
    { "applicant_name", "employment_status", "loan_purpose", "education_level",
      "marital_status", "property_ownership" }

LoanDataFields == DOMAIN ValidLoanData

\* Values a field of the request body takes in the model
LoanDataValues(f) ==
    IF f \in TextFields
    THEN { Undefined, Null, Str(""), Str("   "), Str("x"), Num(2 * 7) }
    ELSE { Undefined, Null, Str(""), Str("abc"), Str("700"), Str("45.5") }
         \cup { Num(n) : n \in { -1, 0, 1, 2 * 17 + 1, 2 * 18, 2 * 20, 2 * 20 + 1, 2 * 50,
                                2 * 50 + 1, 2 * 100, 2 * 100 + 1, 2 * 299 + 1, 2 * 300,
                                2 * 850 + 1, 2 * 851, 2 * 10000000, 2 * 10000000 + 1 } }

\* The accepted body with one field changed
OneLoanFieldChanged ==
    UNION { { [ValidLoanData EXCEPT ![f] = v] : v \in LoanDataValues(f) } : f \in LoanDataFields }

\* The accepted body with two fields missing or not numeric
TwoLoanFieldsBad ==
    { [ValidLoanData EXCEPT ![f] = v, ![g] = Str("")] :
        f \in LoanDataFields, g \in LoanDataFields, v \in { Undefined, Num(-1) } }

\* A body with no usable field at all
EmptyLoanData == [f \in LoanDataFields |-> IF f = "collateral_value" THEN Str("abc") ELSE Undefined]

\* A body with every factor of calculateMLPrediction at its best
BestLoanData ==
    [ ValidLoanData EXCEPT !.employment_status = Str("Employed"),
                           !.education_level = Str("PhD"),
                           !.loan_amount = Num(2 * 10000),
                           !.annual_income = Num(2 * 30000),
                           !.credit_score = Num(2 * 750),
                           !.debt_to_income_ratio = Num(2 * 20),
                           !.existing_loans = Num(0),
                           !.collateral_value = Num(2 * 8000) ]

\* A body with every factor in a middle band and no bonus but the age's
MidLoanData ==
    [ ValidLoanData EXCEPT !.employment_status = Str("Self-employed"),
                           !.education_level = Str("High School"),
                           !.loan_amount = Num(2 * 10000),
                           !.annual_income = Num(2 * 15000),
                           !.credit_score = Num(2 * 650),
                           !.debt_to_income_ratio = Num(2 * 40),
                           !.employment_length = Num(2 * 2),
                           !.existing_loans = Num(2 * 2) ]

\* A body that scores 50: the least REVIEW_REQUIRED
HalfLoanData ==
    [ ValidLoanData EXCEPT !.employment_status = Str("Employed"),
                           !.education_level = Str(" PhD "),
                           !.loan_amount = Num(2 * 10000),
                           !.annual_income = Num(2 * 10000),
                           !.credit_score = Num(2 * 600),
                           !.debt_to_income_ratio = Num(2 * 50),
                           !.employment_length = Num(2 * 1),
                           !.existing_loans = Num(2 * 4) ]

\* A body that scores 75: the least APPROVED
Score75LoanData ==
    [ ValidLoanData EXCEPT !.employment_status = Str("Employed"),
                           !.education_level = Str("High School"),
                           !.loan_amount = Num(2 * 10000),
                           !.annual_income = Num(2 * 15000),
                           !.credit_score = Num(2 * 700),
                           !.debt_to_income_ratio = Num(2 * 30),
                           !.employment_length = Num(2 * 1),
                           !.existing_loans = Num(2 * 1) ]

\* A body with every factor at its worst
WorstLoanData ==
    [ ValidLoanData EXCEPT !.employment_status = Str("Retired"),
                           !.education_level = Str("High School"),
                           !.loan_amount = Num(2 * 10000),
                           !.annual_income = Num(0),
                           !.credit_score = Num(2 * 300),
                           !.debt_to_income_ratio = Num(2 * 100),
                           !.employment_length = Num(0),
                           !.existing_loans = Num(2 * 50),
                           !.age = Num(2 * 18) ]

ScoredFields ==
    { "credit_score", "debt_to_income_ratio", "annual_income", "employment_status",
      "employment_length", "existing_loans", "collateral_value", "age",
      "education_level" }

\* Values at the edges of the bands of calculateMLPrediction
ScoredValues(f) ==
    CASE f = "credit_score" ->
            { Num(2 * n) : n \in { 599, 600, 649, 650, 699, 700, 749, 750 } }
            \cup { Num(2 * 749 + 1), Str("700") }
      [] f = "debt_to_income_ratio" ->
            { Num(n) : n \in { 2 * 20, 2 * 20 + 1, 2 * 30, 2 * 30 + 1, 2 * 40, 2 * 40 + 1,
                               2 * 50, 2 * 50 + 1 } } \cup { Str("45.5") }
      [] f = "annual_income" ->
            { Num(2 * n) : n \in { 9999, 10000, 14999, 15000, 19999, 20000, 29999, 30000 } }
      [] f = "employment_status" ->
            { Str("Employed"), Str("Self-employed"), Str("Retired"), Str("employed") }
      [] f = "employment_length" -> { Num(n) : n \in { 0, 1, 2, 3, 4, 9, 10 } }
      [] f = "existing_loans" -> { Num(2 * n) : n \in { 0, 1, 2, 3, 4, 5 } } \cup { Num(1) }
      [] f = "collateral_value" ->
            { Undefined, Null, Str(""), Num(0), Num(2 * 7999 + 1), Num(2 * 8000) }
      [] f = "age" -> { Num(2 * n) : n \in { 24, 25, 55, 56 } } \cup { Num(2 * 24 + 1) }
      [] f = "education_level" ->
            { Str("Bachelors Degree"), Str("Masters Degree"), Str("PhD"), Str(" PhD "),
              Str("High School") }

\* The bodies calculateMLPrediction is followed on: each base with one scored
\* field changed
ScoredLoanData ==
    UNION { { [b EXCEPT ![f] = v] :
                b \in { BestLoanData, MidLoanData, HalfLoanData, Score75LoanData,
                        WorstLoanData },
                v \in ScoredValues(f) } : f \in ScoredFields }

LoanDataInputs ==
    OneLoanFieldChanged \cup TwoLoanFieldsBad \cup { EmptyLoanData } \cup ScoredLoanData

\* Draws of Math.random(), in tenths, for the weight adjustments: one for the
\* keys drawn apart, one for the others
WeightDraws == { <<1, 1>>, <<1, 9>>, <<9, 1>> }

\* The keys that draw apart from the rest in the model's retrains
DrawnApart == { "delinquenciesLast2Years", "inquiriesLast6Months", "loanAmount" }

\* The ten draws of one retrainModel call: one value for the keys drawn apart,
\* one for the others
DrawVectors ==
    { [k \in KeySet |-> IF k \in DrawnApart THEN d[1] ELSE d[2]] : d \in WeightDraws }

\* The draws of one retrainModel call for the metrics: Math.random() * 0.02 in
\* 1/1000 for the four rates, Math.floor(Math.random() * 1000) for the size
MetricDraws ==
    { [accuracy |-> 10, precision |-> 19, recall |-> 0, f1Score |-> 5, size |-> 500] }

\* The trainingData arguments of retrainModel: absent, or an array of a length
TrainingData == { [given |-> FALSE, length |-> 0] }

\* The trainingData arguments where the metrics are followed: absent, an empty
\* array, an array of three applications
TrainingArrays ==
    { [given |-> FALSE, length |-> 0], [given |-> TRUE, length |-> 0],
      [given |-> TRUE, length |-> 3] }

\* The draws for the metrics where the metrics are followed: the least and the
\* greatest of Math.random() * 0.02 and of Math.floor(Math.random() * 1000)
MetricDrawsWide ==
    { [accuracy |-> 0, precision |-> 0, recall |-> 0, f1Score |-> 0, size |-> 0],
      [accuracy |-> 19, precision |-> 19, recall |-> 19, f1Score |-> 19, size |-> 999] }

\* Math.random() = 0.5 for every weight: no adjustment
SteadyDraws == { [k \in KeySet |-> 5] }

\* A list of n recent predictions, the first `approved` of them approved and
\* the first `low` of them of low confidence
PredictionsOf(n, approved, low) ==
    [i \in 1..n |->
        [ prediction |-> IF i <= approved THEN "approved" ELSE "denied",
          confidence |-> IF i <= low THEN "low" ELSE IF i = n THEN "medium" ELSE "high",
          score |-> IF i <= approved THEN 700 ELSE 300 ]]

\* The recentPredictions arguments of calculateDrift
RecentPredictions ==
    UNION { { PredictionsOf(n, approved, low) : approved \in 0..n, low \in 0..n }
            : n \in 0..MaxPredictions }

\* Whole days between this.metrics.lastTrained and a calculateDrift call
DaysSinceTrained == { 0, 90, 91 }

\* The concurrent CSV import requests
Requests == { 1, 2 }

\* A row validateRow accepts
GoodRow(id) ==
    [ Loan_ID |-> id, Gender |-> "Male", Married |-> "Yes", Dependents |-> "3+",
      Education |-> "Graduate", Self_Employed |-> "No", ApplicantIncome |-> "5000",
      CoapplicantIncome |-> "0", LoanAmount |-> "128", Loan_Amount_Term |-> "360",
      Credit_History |-> "1", Property_Area |-> "Urban", Loan_Status |-> "Y" ]

\* The parsed records of the CSV files of the model
Files ==
    { << >>,
      << GoodRow("LP001"), GoodRow("LP001") >>,
      << GoodRow("LP001"), [GoodRow("LP002") EXCEPT !.Gender = "Other"], GoodRow("LP002") >>,
      << [GoodRow("") EXCEPT !.LoanAmount = ""], GoodRow("LP002") >>,
      << [GoodRow("LP003") EXCEPT !.LoanAmount = "0", !.Credit_History = "2",
                                  !.ApplicantIncome = "-1", !.Married = ""],
         GoodRow("LP001") >> }

\* An import request that has not been made
NotStarted == [pc |-> "none"]

----------------------------------------------------------------------------
(* The service *)

\* The weights the constructor assigns, in 1/1000
constructorWeights ==
    [ creditScore |-> 350, debtToIncome |-> 250, annualIncome |-> 150,
      employmentLength |-> 80, hasDerogatory |-> 70,
      delinquenciesLast2Years |-> 50, inquiriesLast6Months |-> 30,
      loanAmount |-> 20, homeOwnership |-> 5, verificationStatus |-> 5 ]

\* The metrics the constructor assigns, the rates in 1/1000
constructorMetrics ==
    [ accuracy |-> 870, precision |-> 820, recall |-> 910, f1Score |-> 860,
      lastTrained |-> 0, trainingSize |-> 10000 ]

\* constructor
Init ==
    /\ modelWeights = constructorWeights
    /\ weightDen = 1000
    /\ metrics = constructorMetrics
    /\ timers = << >>
    /\ retrainCalls = 0
    /\ input = "none"
    /\ outcome = [kind |-> "none", issues |-> << >>, result |-> NoResult]
    /\ locals = [scored |-> FALSE]
    /\ requestData = "none"
    /\ validation = [kind |-> "none", isValid |-> FALSE, errors |-> << >>]
    /\ earlier = [kept |-> FALSE]
    /\ inputs = << >>
    /\ batch = [kind |-> "none", issues |-> << >>, results |-> << >>]
    /\ snapshots = [featureImportance |-> NoObject, modelMetrics |-> NoObject]
    /\ drift = [kind |-> "none"]
    /\ mlPrediction = [kind |-> "none"]
    /\ db = { }
    /\ imports = [r \in Requests |-> NotStarted]

\* No synchronous call's result is waiting to be taken by its caller
Idle == outcome.kind = "none" /\ validation.kind = "none" /\ batch.kind = "none"

\* The local values of a predict call that passed validation; completedRetrains
\* is the number of retrainModel calls that had completed when it ran
predictLocals(in) ==
    IF validateInput(in).kind = "ok"
    THEN [ scored |-> TRUE,
           rawScore |-> rawScore(in, modelWeights),
           score |-> scoreOf(in, modelWeights, weightDen),
           weights |-> modelWeights,
           den |-> weightDen,
           completedRetrains |-> metrics.lastTrained ]
    ELSE [ scored |-> FALSE ]

\* A predict that writes the normalised weights back to the service
PredictNormalizing ==
    /\ Idle
    /\ \E in \in Profiles :
        /\ input' = in
        /\ outcome' = predict(in, modelWeights, weightDen)
        /\ locals' = predictLocals(in)
        /\ modelWeights' = Lowest(modelWeights, SumWeights(modelWeights)).w
        /\ weightDen' = Lowest(modelWeights, SumWeights(modelWeights)).den
        /\ UNCHANGED <<snapshots, drift, mlPrediction, db, imports, metrics, timers, retrainCalls, requestData, validation, earlier, inputs, batch>>

\* predict(input): synchronous, reads this.modelWeights. The caller of the
\* latest call has taken what it returned or threw before the next call.
Predict ==
    /\ Idle
    /\ \E in \in Profiles :
        /\ input' = in
        /\ outcome' = predict(in, modelWeights, weightDen)
        /\ locals' = predictLocals(in)
        /\ UNCHANGED <<snapshots, drift, mlPrediction, db, imports, modelWeights, weightDen, metrics, timers, retrainCalls, requestData, validation, earlier, inputs, batch>>

\* predict(input) once more with the profile of the latest call, by a caller
\* that keeps the result it already has
PredictAgain ==
    /\ outcome.kind = "returned"
    /\ ~earlier.kept
    /\ input \in Bases
    /\ earlier' = [ kept |-> TRUE, result |-> outcome.result,
                    completedRetrains |-> locals.completedRetrains ]
    /\ outcome' = predict(input, modelWeights, weightDen)
    /\ locals' = predictLocals(input)
    /\ UNCHANGED <<snapshots, drift, mlPrediction, db, imports, modelWeights, weightDen, metrics, timers, retrainCalls, input, requestData, validation, inputs, batch>>

\* batchPredict(inputs): synchronous, one predict per element
BatchPredict ==
    /\ Idle
    /\ \E ins \in Batches :
         /\ inputs' = ins
         /\ batch' = batchPredict(ins, modelWeights, weightDen)
    /\ UNCHANGED <<snapshots, drift, mlPrediction, db, imports, modelWeights, weightDen, metrics, timers, retrainCalls, input, outcome, locals, requestData, validation, earlier>>

\* retrainModel(trainingData), up to its await: the call arms a 2000 ms timer
\* and returns a pending promise. The arguments come from arrays, and the
\* behaviour has at most `most` calls.
RetrainModelCallWith(arrays, most) ==
    /\ retrainCalls < most
    /\ \E trainingData \in arrays :
         timers' = Append(timers, trainingData)
    /\ retrainCalls' = retrainCalls + 1
    /\ UNCHANGED <<snapshots, drift, mlPrediction, db, imports, modelWeights, weightDen, metrics, input, outcome, locals, requestData, validation, earlier, inputs, batch>>

RetrainModelCall == RetrainModelCallWith(TrainingData, MaxRetrains)

\* retrainModel after its await: the timer armed first fires first, and the
\* rest of the body runs to completion without another suspension. The draws
\* of Math.random() come from weightDraws and metricDraws.
RetrainModelResumeWith(weightDraws, metricDraws) ==
    /\ timers # << >>
    /\ \E draws \in weightDraws, d \in metricDraws :
         LET p == perturbWeights(modelWeights, weightDen, draws)
             n == normalizeWeights(p, 1000 * weightDen)
         IN  /\ metrics' = retrainedMetrics(metrics, Head(timers), d)
             /\ modelWeights' = n.w
             /\ weightDen' = n.den
    /\ timers' = Tail(timers)
    /\ UNCHANGED <<snapshots, drift, mlPrediction, db, imports, retrainCalls, input, outcome, locals, requestData, validation, earlier, inputs, batch>>

RetrainModelResume == RetrainModelResumeWith(DrawVectors, MetricDraws)

RetrainModelCallWide == RetrainModelCallWith(TrainingArrays, MaxMetricRetrains)

RetrainModelResumeWide == RetrainModelResumeWith(SteadyDraws, MetricDrawsWide)

\* const importance = getFeatureImportance(), kept by the caller
GetFeatureImportance ==
    /\ snapshots.featureImportance.kind = "none"
    /\ snapshots' = [snapshots EXCEPT !.featureImportance = getFeatureImportance]
    /\ UNCHANGED <<drift, mlPrediction, db, imports, modelWeights, weightDen, metrics, timers, retrainCalls, input, outcome, locals, requestData, validation, earlier, inputs, batch>>

\* const m = getModelMetrics(), kept by the caller
GetModelMetrics ==
    /\ snapshots.modelMetrics.kind = "none"
    /\ snapshots' = [snapshots EXCEPT !.modelMetrics = getModelMetrics]
    /\ UNCHANGED <<drift, mlPrediction, db, imports, modelWeights, weightDen, metrics, timers, retrainCalls, input, outcome, locals, requestData, validation, earlier, inputs, batch>>

\* importance.creditScore = 0 by the caller: the assignment lands in the
\* object the caller holds, which is a copy or the service's own object
AssignFeatureImportanceField ==
    /\ snapshots.featureImportance.kind # "none"
    /\ ~snapshots.featureImportance.assigned
    /\ IF snapshots.featureImportance.kind = "copy"
       THEN /\ snapshots' = [snapshots EXCEPT !.featureImportance.value.w.creditScore = 0,
                                              !.featureImportance.assigned = TRUE]
            /\ UNCHANGED modelWeights
       ELSE /\ snapshots' = [snapshots EXCEPT !.featureImportance.assigned = TRUE]
            /\ modelWeights' = [modelWeights EXCEPT !.creditScore = 0]
    /\ UNCHANGED <<drift, mlPrediction, db, imports, weightDen, metrics, timers, retrainCalls, input, outcome, locals, requestData, validation, earlier, inputs, batch>>

\* m.accuracy = 0 by the caller
AssignModelMetricsField ==
    /\ snapshots.modelMetrics.kind # "none"
    /\ ~snapshots.modelMetrics.assigned
    /\ IF snapshots.modelMetrics.kind = "copy"
       THEN /\ snapshots' = [snapshots EXCEPT !.modelMetrics.value.accuracy = 0,
                                              !.modelMetrics.assigned = TRUE]
            /\ UNCHANGED metrics
       ELSE /\ snapshots' = [snapshots EXCEPT !.modelMetrics.assigned = TRUE]
            /\ metrics' = [metrics EXCEPT !.accuracy = 0]
    /\ UNCHANGED <<drift, mlPrediction, db, imports, modelWeights, weightDen, timers, retrainCalls, input, outcome, locals, requestData, validation, earlier, inputs, batch>>

\* POST of the import route up to the loop: the parsed records, the empty-file
\* response, the ImportResult
ImportStart ==
    \E r \in Requests, records \in Files :
      /\ imports[r].pc = "none"
      /\ imports' =
           [ imports EXCEPT ![r] =
               [ pc |-> IF Len(records) = 0 THEN "done" ELSE "validateRow",
                 records |-> records, i |-> 1, taken |-> << >>,
                 status |-> IF Len(records) = 0 THEN 400 ELSE 0,
                 result |-> IF Len(records) = 0
                            THEN [ importResult(records) EXCEPT
                                     !.errors = << RowError(0, "CSV file is empty") >> ]
                            ELSE importResult(records) ] ]
      /\ UNCHANGED <<snapshots, drift, mlPrediction, db, modelWeights, weightDen, metrics, timers, retrainCalls, input, outcome, locals, requestData, validation, earlier, inputs, batch>>

\* One iteration up to its await: validateRow, and either the validation
\* error is counted or findUnique is called
ImportValidateRow ==
    \E r \in Requests :
      LET imp == imports[r]
          validationErrors == validateRow(imp.records[imp.i], imp.i)
      IN  /\ imp.pc = "validateRow"
          /\ imports' =
               [ imports EXCEPT ![r] =
                   IF Len(validationErrors) > 0
                   THEN nextRow([ imp EXCEPT
                                    !.result.validationErrors = imp.result.validationErrors + 1,
                                    !.result.errors = imp.result.errors \o validationErrors ],
                                "validationError")
                   ELSE [imp EXCEPT !.pc = "findUnique"] ]
          /\ UNCHANGED <<snapshots, drift, mlPrediction, db, modelWeights, weightDen, metrics, timers, retrainCalls, input, outcome, locals, requestData, validation, earlier, inputs, batch>>

\* prisma.loanApplication.findUnique answers: a row that exists is counted as
\* a duplicate, otherwise create is called
ImportFindUnique ==
    \E r \in Requests :
      LET imp == imports[r]
          existing == imp.records[imp.i].Loan_ID \in db
      IN  /\ imp.pc = "findUnique"
          /\ imports' =
               [ imports EXCEPT ![r] =
                   IF existing
                   THEN nextRow([ imp EXCEPT
                                    !.result.duplicateSkipped = imp.result.duplicateSkipped + 1 ],
                                "duplicate")
                   ELSE [imp EXCEPT !.pc = "create"] ]
          /\ UNCHANGED <<snapshots, drift, mlPrediction, db, modelWeights, weightDen, metrics, timers, retrainCalls, input, outcome, locals, requestData, validation, earlier, inputs, batch>>

\* prisma.loanApplication.create answers: the row is stored and counted, or,
\* when another request has stored the loanId since findUnique answered, the
\* unique loanId rejects it and the catch block records the error
ImportCreate ==
    \E r \in Requests :
      LET imp == imports[r]
          loanId == imp.records[imp.i].Loan_ID
      IN  /\ imp.pc = "create"
          /\ IF loanId \in db
             THEN /\ imports' =
                       [ imports EXCEPT ![r] =
                           nextRow([ imp EXCEPT
                                       !.result.errors =
                                           Append(imp.result.errors,
                                                  RowError(imp.i, "Database error")) ],
                                   "dbError") ]
                  /\ UNCHANGED db
             ELSE /\ imports' =
                       [ imports EXCEPT ![r] =
                           nextRow([ imp EXCEPT
                                       !.result.successfulInserts =
                                           imp.result.successfulInserts + 1 ],
                                   "inserted") ]
                  /\ db' = db \cup { loanId }
          /\ UNCHANGED <<snapshots, drift, mlPrediction, modelWeights, weightDen, metrics, timers, retrainCalls, input, outcome, locals, requestData, validation, earlier, inputs, batch>>

\* calculateDrift(recentPredictions): synchronous, reads this.metrics.lastTrained
\* and the clock
CalculateDrift ==
    /\ drift.kind = "none"
    /\ \E recentPredictions \in RecentPredictions, days \in DaysSinceTrained :
         drift' = [ kind |-> "returned", recentPredictions |-> recentPredictions,
                    days |-> days, result |-> calculateDrift(recentPredictions, days) ]
    /\ UNCHANGED <<snapshots, mlPrediction, db, imports, modelWeights, weightDen, metrics, timers, retrainCalls, input, outcome, locals, requestData, validation, earlier, inputs, batch>>

\* The caller of calculateDrift takes what it returned
ReturnDrift ==
    /\ drift.kind # "none"
    /\ drift' = [kind |-> "none"]
    /\ UNCHANGED <<snapshots, mlPrediction, db, imports, modelWeights, weightDen, metrics, timers, retrainCalls, input, outcome, locals, requestData, validation, earlier, inputs, batch>>

\* The caller of predict or batchPredict takes the result or the error and
\* lets go of what it kept: the service keeps none of it
Return ==
    /\ outcome.kind # "none" \/ batch.kind # "none"
    /\ input' = "none"
    /\ outcome' = [kind |-> "none", issues |-> << >>, result |-> NoResult]
    /\ locals' = [scored |-> FALSE]
    /\ earlier' = [kept |-> FALSE]
    /\ inputs' = << >>
    /\ batch' = [kind |-> "none", issues |-> << >>, results |-> << >>]
    /\ UNCHANGED <<snapshots, drift, mlPrediction, db, imports, modelWeights, weightDen, metrics, timers, retrainCalls, requestData, validation>>

\* validateLoanData(requestData): synchronous, reads nothing of the service
ValidateLoanData ==
    /\ Idle
    /\ \E data \in LoanDataInputs :
         /\ requestData' = data
         /\ validation' = validateLoanData(data)
    /\ UNCHANGED <<snapshots, drift, mlPrediction, db, imports, modelWeights, weightDen, metrics, timers, retrainCalls, input, outcome, locals, earlier, inputs, batch>>

\* POST after a validation that passed: the body is normalized and
\* calculateMLPrediction runs on it, synchronously
CalculateMLPrediction ==
    /\ validation.kind = "returned"
    /\ validation.isValid
    /\ mlPrediction.kind = "none"
    /\ LET loanData == normalizedLoanData(requestData)
       IN  mlPrediction' = [ kind |-> "returned", loanData |-> loanData,
                             prediction |-> calculateMLPrediction(loanData) ]
    /\ UNCHANGED <<snapshots, drift, db, imports, modelWeights, weightDen, metrics, timers, retrainCalls, input, outcome, locals, requestData, validation, earlier, inputs, batch>>

\* The route responds: with status 400 after a failed validation, with the
\* prediction otherwise
ReturnValidation ==
    /\ validation.kind # "none"
    /\ validation.isValid => mlPrediction.kind = "returned"
    /\ requestData' = "none"
    /\ validation' = [kind |-> "none", isValid |-> FALSE, errors |-> << >>]
    /\ mlPrediction' = [kind |-> "none"]
    /\ UNCHANGED <<snapshots, drift, db, imports, modelWeights, weightDen, metrics, timers, retrainCalls, input, outcome, locals, earlier, inputs, batch>>

Next ==
    Predict \/ PredictAgain \/ BatchPredict \/ Return \/ RetrainModelCall \/ RetrainModelResume

Spec == Init /\ [][Next]_vars

\* The two validations, of the evaluator and of the applications route, on a
\* freshly constructed service
NextValidation ==
    Predict \/ Return \/ ValidateLoanData \/ CalculateMLPrediction \/ ReturnValidation

SpecValidation == Init /\ [][NextValidation]_vars

\* Retrains with and without training data, followed for their metrics
NextMetrics == RetrainModelCallWide \/ RetrainModelResumeWide

SpecMetrics == Init /\ [][NextMetrics]_vars

\* Callers that keep what getFeatureImportance and getModelMetrics return and
\* assign to it, while the model is retrained
NextSnapshots ==
    \/ RetrainModelCall
    \/ RetrainModelResume
    \/ GetFeatureImportance
    \/ GetModelMetrics
    \/ AssignFeatureImportanceField
    \/ AssignModelMetricsField

SpecSnapshots == Init /\ [][NextSnapshots]_vars

\* Two concurrent requests to the CSV import route
NextImport == ImportStart \/ ImportValidateRow \/ ImportFindUnique \/ ImportCreate

SpecImport == Init /\ [][NextImport]_vars

\* calculateDrift on lists of recent predictions
NextDrift == CalculateDrift \/ ReturnDrift

SpecDrift == Init /\ [][NextDrift]_vars

----------------------------------------------------------------------------
(* Properties *)

Returned == outcome.kind = "returned"

Threw == outcome.kind = "threw"

\* The latest predict call scored with weights a retrainModel has written
ScoredAfterRetrain ==
    /\ locals.scored
    /\ <<locals.weights, locals.den>> # <<constructorWeights, 1000>>

\* The latest predict call scored with the constructor's weights
ScoredFresh ==
    /\ locals.scored
    /\ <<locals.weights, locals.den>> = <<constructorWeights, 1000>>

\* The domains the data model declares for an applicant profile
InDeclaredDomain(in) ==
    /\ in.creditScore % 2 = 0 /\ in.creditScore \in (2 * 300)..(2 * 850)
    /\ in.annualIncome >= 0
    /\ in.employmentLength >= 0
    /\ in.loanAmount > 0
    /\ in.loanPurpose \in LoanPurposes
    /\ in.debtToIncome \in 0..100
    /\ in.delinquenciesLast2Years % 2 = 0 /\ in.delinquenciesLast2Years >= 0
    /\ in.inquiriesLast6Months % 2 = 0 /\ in.inquiriesLast6Months >= 0
    /\ in.homeOwnership \in HomeOwnerships
    /\ in.verificationStatus \in VerificationStatuses

\* A result with every field of PredictionResult filled in
CompleteResult(r) ==
    /\ DOMAIN r = { "prediction", "probability", "confidence", "score", "reasons",
                    "featureImportance", "riskFactors", "positiveFactors" }
    /\ r.prediction \in { "approved", "denied" }
    /\ r.probability \in 0..10000
    /\ r.confidence \in { "high", "medium", "low" }
    /\ r.score \in 0..1000
    /\ r.reasons \in Seq(STRING)
    /\ r.riskFactors \in Seq(STRING)
    /\ r.positiveFactors \in Seq(STRING)

\* C1: whenever predict returns, under the constructor's weights or any
\* retrained ones, the score is within 0..1000 (rounded and unrounded) and the
\* probability within 0..1.
C1_ScoreAndProbabilityInRange ==
    Returned =>
        /\ outcome.result.score \in 0..1000
        /\ outcome.result.probability \in 0..10000
        /\ locals.score >= 0 /\ locals.score <= 10 * locals.den

\* predict returned 1000 for a raw score above 1000, under retrained weights
C1_ClampedAfterRetrain ==
    /\ Returned
    /\ ScoredAfterRetrain
    /\ locals.rawScore > 10 * locals.den
    /\ outcome.result.score = 1000

\* C2: whenever predict returns, the prediction is 'approved' exactly when
\* the probability is at least 0.5, which is exactly when the clamped unrounded
\* score is at least 650; the profiles scoring 650 and 651 are approved and the
\* one scoring 649 is denied.
C2_ApprovedIffAtLeast650 ==
    Returned =>
        /\ outcome.result.prediction \in { "approved", "denied" }
        /\ outcome.result.prediction = "approved" <=> outcome.result.probability >= 5000
        /\ outcome.result.probability >= 5000 <=> 100 * locals.score >= 650 * locals.den
        /\ 100 * locals.score = 650 * locals.den => outcome.result.prediction = "approved"
        /\ 100 * locals.score = 651 * locals.den => outcome.result.prediction = "approved"
        /\ 100 * locals.score = 649 * locals.den => outcome.result.prediction = "denied"

\* predict approved a profile whose unrounded score is exactly 650
C2_Exactly650Approved ==
    /\ Returned
    /\ input = Score650
    /\ 100 * locals.score = 650 * locals.den
    /\ outcome.result.score = 650
    /\ outcome.result.prediction = "approved"

\* C3: in every reachable state the ten model weights sum to 1.
C3_WeightsSumToOne ==
    /\ weightDen > 0
    /\ SumWeights(modelWeights) = weightDen

\* C4: predict throws, and returns no result, whenever a field of its input is
\* outside the domain declared for it.
C4_OutOfDomainRejected ==
    (outcome.kind # "none" /\ ~InDeclaredDomain(input)) =>
        (Threw /\ outcome.result = NoResult)

C6_CreditScoreAbove850Rejected ==
    (outcome.kind # "none" /\ input.creditScore > 2 * 850) =>
        /\ Threw
        /\ \E i \in DOMAIN outcome.issues : outcome.issues[i].field = "creditScore"
        /\ outcome.result = NoResult
        /\ ~locals.scored

\* predict threw on scenario A with its credit score set to 851
C6_Credit851Threw ==
    /\ Threw
    /\ input = [ScenarioA EXCEPT !.creditScore = 2 * 851]
    /\ details(outcome.issues) = << [field |-> "creditScore", message |-> "too_big"] >>

\* The constraint the schema puts on field f does not hold of in
ViolatesSchema(in, f) ==
    CASE f = "creditScore" -> in.creditScore < 2 * 300 \/ in.creditScore > 2 * 850
      [] f = "annualIncome" -> in.annualIncome <= 0
      [] f = "employmentLength" -> in.employmentLength < 0
      [] f = "loanAmount" -> in.loanAmount <= 0
      [] f = "loanPurpose" -> in.loanPurpose \notin LoanPurposes
      [] f = "debtToIncome" -> in.debtToIncome < 0 \/ in.debtToIncome > 100
      [] f = "hasDerogatory" -> in.hasDerogatory \notin BOOLEAN
      [] f = "delinquenciesLast2Years" -> in.delinquenciesLast2Years < 0
      [] f = "inquiriesLast6Months" -> in.inquiriesLast6Months < 0
      [] f = "homeOwnership" -> in.homeOwnership \notin HomeOwnerships
      [] f = "verificationStatus" -> in.verificationStatus \notin VerificationStatuses

Accepted(in) == LoanPredictionInputSchema(in) = << >>

\* The score field predict returns for an accepted input under weights w / den
ReturnedScore(in, w, den) == roundScore(scoreOf(in, w, den), den)

\* C8: of two valid profiles that differ only in credit score, the one with
\* the higher credit score gets the higher or equal score, rounded and unrounded,
\* under the weights in use.
C8_CreditScoreMonotone ==
    Returned =>
        \A c \in FieldValues("creditScore") :
            LET q == [input EXCEPT !.creditScore = c]
            IN  (c >= input.creditScore /\ Accepted(q)) =>
                    /\ ReturnedScore(q, locals.weights, locals.den) >= outcome.result.score
                    /\ scoreOf(q, locals.weights, locals.den) >= locals.score

\* under retrained weights, a profile at credit score 749 scored strictly
\* less than it would at 750
C8_Step749To750 ==
    /\ Returned
    /\ ScoredAfterRetrain
    /\ input.creditScore = 2 * 749
    /\ ReturnedScore([input EXCEPT !.creditScore = 2 * 750], locals.weights, locals.den)
          > outcome.result.score

\* C9: of two valid profiles that differ only in delinquenciesLast2Years,
\* the one with more delinquencies gets the lower or equal score, under the
\* weights in use.
C9_DelinquenciesMonotone ==
    Returned =>
        \A n \in FieldValues("delinquenciesLast2Years") :
            LET q == [input EXCEPT !.delinquenciesLast2Years = n]
            IN  (n >= input.delinquenciesLast2Years /\ Accepted(q)) =>
                    /\ ReturnedScore(q, locals.weights, locals.den) <= outcome.result.score
                    /\ scoreOf(q, locals.weights, locals.den) <= locals.score

\* under retrained weights, a profile without delinquencies scored strictly
\* more than it would with one
C9_OneDelinquencyCosts ==
    /\ Returned
    /\ ScoredAfterRetrain
    /\ input.delinquenciesLast2Years = 0
    /\ ReturnedScore([input EXCEPT !.delinquenciesLast2Years = 2], locals.weights, locals.den)
          < outcome.result.score

\* C10: of two valid profiles that differ only in debtToIncome, the one with
\* the higher ratio gets the lower or equal score, under the weights in use.
C10_DebtToIncomeMonotone ==
    Returned =>
        \A dti \in FieldValues("debtToIncome") :
            LET q == [input EXCEPT !.debtToIncome = dti]
            IN  (dti >= input.debtToIncome /\ Accepted(q)) =>
                    /\ ReturnedScore(q, locals.weights, locals.den) <= outcome.result.score
                    /\ scoreOf(q, locals.weights, locals.den) <= locals.score

\* under retrained weights, a profile at a ratio of 0.35 scored strictly more
\* than it would at 0.40
C10_HigherRatioCosts ==
    /\ Returned
    /\ ScoredAfterRetrain
    /\ input.debtToIncome = 35
    /\ ReturnedScore([input EXCEPT !.debtToIncome = 40], locals.weights, locals.den)
          < outcome.result.score

C12_ScenarioAApproved ==
    (Returned /\ ScoredFresh /\ input = ScenarioA) =>
        /\ outcome.result.prediction = "approved"
        /\ outcome.result.confidence \in { "high", "medium" }
        /\ outcome.result.score > 700
        /\ 100 * locals.score > 700 * locals.den

\* predict returned for scenario A on a freshly constructed service
C12_ScenarioAScoredFresh ==
    /\ Returned
    /\ ScoredFresh
    /\ input = ScenarioA
    /\ outcome.result.score = 795

InList(text, list) == \E i \in DOMAIN list : list[i] = text

\* C13 as stated: on a freshly constructed service scenario B is denied, and
\* its risk-factor list has more than one entry and holds the string
\* "Derogatory marks on credit report raise concerns".
C13_ScenarioBRiskFactorString ==
    (Returned /\ ScoredFresh /\ input = ScenarioB) =>
        /\ outcome.result.prediction = "denied"
        /\ Len(outcome.result.riskFactors) > 1
        /\ InList("Derogatory marks on credit report raise concerns",
                  outcome.result.riskFactors)

\* C13 as amended: scenario B is denied, its risk-factor list has more than
\* one entry and holds "Derogatory credit marks", and the string "Derogatory
\* marks on credit report raise concerns" is an entry of its reasons list.
C13_ScenarioBDenied ==
    (Returned /\ ScoredFresh /\ input = ScenarioB) =>
        /\ outcome.result.prediction = "denied"
        /\ Len(outcome.result.riskFactors) > 1
        /\ InList("Derogatory credit marks", outcome.result.riskFactors)
        /\ InList("Derogatory marks on credit report raise concerns",
                  outcome.result.reasons)

\* predict returned for scenario B on a freshly constructed service
C13_ScenarioBScoredFresh ==
    /\ Returned
    /\ ScoredFresh
    /\ input = ScenarioB
    /\ Len(outcome.result.riskFactors) = 8

\* Weights that are not negative and sum to 1
Normalised(w, den) ==
    /\ den > 0
    /\ \A k \in KeySet : w[k] >= 0
    /\ SumWeights(w) = den

\* A weight table as the constructor or a completed retrainModel leaves it
Whole(w, den) == <<w, den>> = <<constructorWeights, 1000>> \/ Normalised(w, den)

\* C14: whatever retrainModel calls are in flight, the weight table is in every
\* state the constructor's or a perturbed and renormalised one, and the weights
\* a predict call scored with are such a table: the one of the retrains that
\* had completed when it ran.
C14_NoTornWeights ==
    /\ Whole(modelWeights, weightDen)
    /\ metrics.lastTrained = 0 => <<modelWeights, weightDen>> = <<constructorWeights, 1000>>
    /\ metrics.lastTrained > 0 => Normalised(modelWeights, weightDen)
    /\ locals.scored =>
          /\ Whole(locals.weights, locals.den)
          /\ locals.completedRetrains = metrics.lastTrained =>
                <<locals.weights, locals.den>> = <<modelWeights, weightDen>>

\* predict scored between two retrainModel completions, the second still in flight
C14_ScoredBetweenRetrains ==
    /\ locals.scored
    /\ locals.completedRetrains = 1
    /\ metrics.lastTrained = 1
    /\ timers # << >>
    /\ retrainCalls = 2

\* A step in which predict or batchPredict is called and returns or throws
CallStep ==
    \/ outcome.kind = "none" /\ outcome'.kind # "none"
    \/ ~earlier.kept /\ earlier'.kept
    \/ batch.kind = "none" /\ batch'.kind # "none"

\* C15: a predict or batchPredict call, whether it returns or throws, leaves
\* the model weights and the metrics record as they were.
C15_CallsLeaveServiceUnchanged ==
    [][CallStep => UNCHANGED <<modelWeights, weightDen, metrics>>]_vars

\* predict failed validation on a service whose weights a retrainModel has
\* written
C15_ThrewAfterRetrain ==
    /\ Threw
    /\ metrics.lastTrained > 0
    /\ modelWeights # constructorWeights

\* C16: once a retrainModel call has completed every weight is >= 0 and the
\* weights sum to 1; some weight is at least 0.1, so that the total the next
\* retrainModel divides by is above 0 for every draw.
C16_RetrainedWeightsNormalised ==
    /\ metrics.lastTrained > 0 =>
          /\ Normalised(modelWeights, weightDen)
          /\ \E k \in KeySet : 10 * modelWeights[k] >= weightDen
    /\ timers # << >> =>
          \A draws \in DrawVectors :
              SumWeights(perturbWeights(modelWeights, weightDen, draws)) > 0

\* two retrainModel calls completed and the floor at 0 acted on a weight
C16_RetrainedTwiceWithFloor ==
    /\ metrics.lastTrained = 2
    /\ modelWeights.loanAmount = 0
    /\ timers = << >>

\* The penalties, bonuses and credit bands as C17 states them, in tenths
C17_Component(in, k) ==
    CASE k = "creditScore" ->
            (IF in.creditScore >= 2 * 750 THEN 10
             ELSE IF in.creditScore >= 2 * 700 THEN 8
             ELSE IF in.creditScore >= 2 * 650 THEN 6
             ELSE IF in.creditScore >= 2 * 600 THEN 4
             ELSE IF in.creditScore >= 2 * 550 THEN 2
             ELSE 1)
      [] k = "hasDerogatory" -> (IF in.hasDerogatory THEN -50 * 10 ELSE 0)
      [] k = "delinquenciesLast2Years" -> (-10 * 10 * in.delinquenciesLast2Years) \div 2
      [] k = "inquiriesLast6Months" -> (-5 * 10 * in.inquiriesLast6Months) \div 2
      [] k = "homeOwnership" ->
            (IF in.homeOwnership = "own" THEN 20 * 10
             ELSE IF in.homeOwnership = "mortgage" THEN 15 * 10
             ELSE IF in.homeOwnership = "rent" THEN 5 * 10
             ELSE 0)
      [] k = "verificationStatus" ->
            (IF in.verificationStatus = "verified" THEN 15 * 10
             ELSE IF in.verificationStatus = "source_verified" THEN 10 * 10
             ELSE 0)
      [] OTHER -> Components(in)[k]

\* 1000 * S of C17 as a numerator over den / 100
C17_WeightedSum(in, w) ==
    DotUpTo([k \in KeySet |-> C17_Component(in, k)], w, Len(WeightKeys))

\* C17: the score predict returns is round(clamp(1000 * S, 0, 1000)) for the
\* weighted sum S of the stated band values, penalties and bonuses under the
\* weights in use.
C17_ScoreIsRoundedClampedSum ==
    Returned =>
        LET n == C17_WeightedSum(input, locals.weights)
            clamped == IF n < 0 THEN 0
                       ELSE IF n > 10 * locals.den THEN 10 * locals.den
                       ELSE n
        IN  /\ 2 * locals.den * outcome.result.score <= 200 * clamped + locals.den
            /\ 2 * locals.den * (outcome.result.score + 1) > 200 * clamped + locals.den

\* predict returned, under retrained weights, a score between the clamps for a
\* profile with inquiries, a home-ownership bonus and a verification bonus
C17_PenalisedScoreAfterRetrain ==
    /\ Returned
    /\ ScoredAfterRetrain
    /\ input.inquiriesLast6Months > 0
    /\ input.homeOwnership = "own"
    /\ input.verificationStatus = "verified"
    /\ outcome.result.score \in 1..999

\* The number of the seven predicates of C18 that hold
C18_Count(in, n, den) ==
    Cardinality({ i \in 1..7 :
        CASE i = 1 -> in.creditScore >= 2 * 750 \/ in.creditScore <= 2 * 550
          [] i = 2 -> in.debtToIncome <= 20 \/ in.debtToIncome >= 40
          [] i = 3 -> in.annualIncome >= 100000 \/ in.annualIncome <= 30000
          [] i = 4 -> in.employmentLength >= 2 * 5 \/ in.employmentLength < 2 * 1
          [] i = 5 -> in.hasDerogatory
          [] i = 6 -> in.delinquenciesLast2Years >= 2 * 3
          [] i = 7 -> 100 * n >= 800 * den \/ 100 * n <= 400 * den })

\* C18: the confidence tier is 'high' when four or more of the seven predicates
\* hold, 'medium' when two or three do, 'low' otherwise.
C18_ConfidenceFromSevenPredicates ==
    Returned =>
        LET count == C18_Count(input, locals.score, locals.den)
        IN  outcome.result.confidence =
                IF count >= 4 THEN "high" ELSE IF count >= 2 THEN "medium" ELSE "low"

\* predict returned 'medium' with exactly three of the predicates holding
C18_ThreePredicatesMedium ==
    /\ Returned
    /\ C18_Count(input, locals.score, locals.den) = 3
    /\ outcome.result.confidence = "medium"

\* C19: in every result predict returns, the prediction is 'approved' exactly
\* when the returned, rounded score is at least 650.
C19_RoundedScoreAgreesWithDecision ==
    Returned =>
        (outcome.result.prediction = "approved" <=> outcome.result.score >= 650)

\* C20: the featureImportance of a result predict returned holds the weights
\* that result was scored with, also after later retrainModel calls complete.
C20_FeatureImportanceKeepsWeights ==
    Returned =>
        featureImportance(outcome.result) = [w |-> locals.weights, den |-> locals.den]

\* The feature an entry of riskFactors or positiveFactors is about
FactorFeature(text) ==
    CASE text \in { "Below-average credit score", "Excellent credit score",
                    "Good credit score" } -> "creditScore"
      [] text \in { "High debt-to-income ratio", "Low debt-to-income ratio" } -> "debtToIncome"
      [] text \in { "Lower income level", "High annual income" } -> "annualIncome"
      [] text \in { "Short employment history", "Long employment history" } -> "employmentLength"
      [] text \in { "Derogatory credit marks", "Clean credit history" } -> "hasDerogatory"
      [] text \in { "Recent payment delinquencies", "No recent delinquencies" } ->
            "delinquenciesLast2Years"
      [] text = "Multiple recent credit inquiries" -> "inquiriesLast6Months"
      [] text = "Home ownership" -> "homeOwnership"
      [] text \in { "Unverified income", "Verified income" } -> "verificationStatus"
      [] OTHER -> "unknown"

\* The features the entries of a factor list are about
FactorFeatures(list) == { FactorFeature(list[i]) : i \in DOMAIN list }

\* The features scored through a band function
Banded == { "creditScore", "debtToIncome", "annualIncome", "employmentLength" }

\* C21: in every result a risk factor for a banded feature comes with a band
\* value of at most 0.4, a positive factor for one with a band value of at
\* least 0.8, and no feature has an entry in both lists.
C21_FactorsFollowBands ==
    Returned =>
        LET risks == FactorFeatures(outcome.result.riskFactors)
            positives == FactorFeatures(outcome.result.positiveFactors)
        IN  /\ "unknown" \notin risks \cup positives
            /\ \A k \in risks \cap Banded : Components(input)[k] <= 4
            /\ \A k \in positives \cap Banded : Components(input)[k] >= 8
            /\ risks \cap positives = { }

\* predict returned a result with a banded risk factor at band value 0.4 and a
\* banded positive factor at band value 0.8
C21_BothListsAtBandEdges ==
    /\ Returned
    /\ InList("Below-average credit score", outcome.result.riskFactors)
    /\ Components(input)["creditScore"] = 4
    /\ InList("High annual income", outcome.result.positiveFactors)
    /\ Components(input)["annualIncome"] = 8

\* The feature a reason is about
ReasonFeature(text) ==
    CASE text \in { "Excellent credit score demonstrates strong payment history",
                    "Good credit score indicates reliable payment behavior",
                    "Credit score below acceptable threshold indicates high risk" } ->
            "creditScore"
      [] text \in { "Low debt-to-income ratio shows strong financial capacity",
                    "High debt-to-income ratio exceeds lending guidelines" } -> "debtToIncome"
      [] text \in { "High annual income provides strong repayment ability",
                    "Low income may not support loan repayment" } -> "annualIncome"
      [] text \in { "Stable employment history reduces risk",
                    "Short employment history increases income stability risk" } ->
            "employmentLength"
      [] text \in { "Clean credit history with no major derogatory marks",
                    "Derogatory marks on credit report raise concerns" } -> "hasDerogatory"
      [] text = "Recent payment delinquencies indicate repayment risk" ->
            "delinquenciesLast2Years"
      [] text = "Multiple recent credit inquiries suggest financial stress" ->
            "inquiriesLast6Months"
      [] text = "Loan amount is too high relative to annual income" -> "loanAmount"
      [] text = "Home ownership indicates financial stability" -> "homeOwnership"
      [] text = "Verified income information increases confidence" -> "verificationStatus"
      [] OTHER -> "unknown"

\* C22: every reason of a 'denied' result is about a feature with an entry in
\* that result's riskFactors, every reason of an 'approved' result about a
\* feature with an entry in its positiveFactors.
C22_ReasonsAgreeWithFactors ==
    Returned =>
        \A i \in DOMAIN outcome.result.reasons :
            ReasonFeature(outcome.result.reasons[i]) \in
                FactorFeatures(IF outcome.result.prediction = "denied"
                               THEN outcome.result.riskFactors
                               ELSE outcome.result.positiveFactors)

\* delinquenciesLast2Years and inquiriesLast6Months are integers
IntegerCounts(in) ==
    in.delinquenciesLast2Years % 2 = 0 /\ in.inquiriesLast6Months % 2 = 0

\* C23: on a freshly constructed service, with integer counts, an approved
\* profile has no derogatory mark, no delinquency and at most two inquiries, and
\* a derogatory mark gives a score of 0.
C23_ApprovedHasCleanHistory ==
    (Returned /\ ScoredFresh /\ IntegerCounts(input)) =>
        /\ outcome.result.prediction = "approved" =>
              /\ ~input.hasDerogatory
              /\ input.delinquenciesLast2Years = 0
              /\ input.inquiriesLast6Months <= 2 * 2
        /\ input.hasDerogatory =>
              /\ outcome.result.prediction = "denied"
              /\ outcome.result.score = 0
              /\ locals.score = 0
        /\ input.delinquenciesLast2Years >= 2 * 1 => outcome.result.prediction = "denied"

\* the best profile with two inquiries is approved on a fresh service
C23_TwoInquiriesApproved ==
    /\ Returned
    /\ ScoredFresh
    /\ input = [TopProfile EXCEPT !.inquiriesLast6Months = 2 * 2]
    /\ outcome.result.prediction = "approved"

\* C24: every result predict returns on a freshly constructed service has at
\* least one reason.
C24_AtLeastOneReason ==
    (Returned /\ ScoredFresh) => Len(outcome.result.reasons) >= 1

\* C25: a returned result is the result of the same profile under every other
\* loan purpose of the schema.
C25_LoanPurposeHasNoInfluence ==
    Returned =>
        \A purpose \in LoanPurposes :
            PredictionResult([input EXCEPT !.loanPurpose = purpose],
                             locals.weights, locals.den) = outcome.result

\* predict returned for scenario A with another loan purpose what it returns
\* for scenario A
C25_ScenarioAOtherPurpose ==
    /\ Returned
    /\ input = [ScenarioA EXCEPT !.loanPurpose = "business_loan"]
    /\ outcome.result = PredictionResult(ScenarioA, locals.weights, locals.den)

Rates == { "accuracy", "precision", "recall", "f1Score" }

\* C26: whenever retrainModel writes the metrics, none of accuracy, precision,
\* recall and f1Score decreases or exceeds 0.95; trainingSize becomes the length
\* of a non-empty training array and otherwise does not decrease.
C26_MetricsNeverDecrease ==
    [][ metrics' # metrics =>
          /\ \A rate \in Rates : metrics'[rate] >= metrics[rate] /\ metrics'[rate] <= 950
          /\ IF Head(timers).given /\ Head(timers).length > 0
             THEN metrics'.trainingSize = Head(timers).length
             ELSE metrics'.trainingSize >= metrics.trainingSize ]_vars

\* three retrains completed: recall has reached the cap of 0.95 and the last
\* call's training array gave the training size
C26_RecallCappedSizeFromArray ==
    /\ metrics.lastTrained = 3
    /\ metrics.recall = 950
    /\ metrics.trainingSize = 3

\* The caller has assigned to a field of the object
Assigned(obj) == obj.kind # "none" /\ obj.assigned

\* C27: an assignment to a field of an object that getFeatureImportance or
\* getModelMetrics returned leaves the service's weights and metrics as they
\* were, and an object a caller holds reads the same before and after a
\* retrainModel completes.
C27_SnapshotsAreIsolated ==
    [][ /\ (\/ Assigned(snapshots.featureImportance)' /\ ~Assigned(snapshots.featureImportance)
            \/ Assigned(snapshots.modelMetrics)' /\ ~Assigned(snapshots.modelMetrics))
           => UNCHANGED <<modelWeights, weightDen, metrics>>
        /\ metrics'.lastTrained # metrics.lastTrained =>
              /\ ReadObject(snapshots.featureImportance)' = ReadObject(snapshots.featureImportance)
              /\ ReadObject(snapshots.modelMetrics)' = ReadObject(snapshots.modelMetrics) ]_vars

\* both objects were obtained before a retrainModel completed and assigned to:
\* they keep the constructor's values and the assigned fields, the service has
\* the retrained values
C27_SnapshotsOutliveRetrain ==
    /\ metrics.lastTrained > 0
    /\ Assigned(snapshots.featureImportance)
    /\ snapshots.featureImportance.value = [w |-> [constructorWeights EXCEPT !.creditScore = 0], den |-> 1000]
    /\ modelWeights.creditScore > 0
    /\ Assigned(snapshots.modelMetrics)
    /\ snapshots.modelMetrics.value = [constructorMetrics EXCEPT !.accuracy = 0]
    /\ metrics.accuracy > 0

\* C28: calculateDrift on an empty list returns zeros and needsRetraining =
\* false; on a non-empty list the three confidence fractions sum to 1 and
\* needsRetraining holds exactly when the approval rate is below 0.5 or above
\* 0.8, or more than 30% of the predictions are of low confidence, or the model
\* was trained more than 90 days ago.
C28_DriftAsStated ==
    drift.kind = "returned" =>
        LET n == Len(drift.recentPredictions)
            res == drift.result
            dist == res.confidenceDistribution
        IN  IF n = 0
            THEN /\ res.approvalRate.num = 0
                 /\ res.averageScore.num = 0
                 /\ dist.high.num = 0 /\ dist.medium.num = 0 /\ dist.low.num = 0
                 /\ ~res.needsRetraining
            ELSE /\ dist.high.den = n /\ dist.medium.den = n /\ dist.low.den = n
                 /\ dist.high.num + dist.medium.num + dist.low.num = n
                 /\ res.needsRetraining <=>
                       \/ 2 * res.approvalRate.num < res.approvalRate.den
                       \/ 5 * res.approvalRate.num > 4 * res.approvalRate.den
                       \/ 10 * dist.low.num > 3 * n
                       \/ drift.days > 90

\* C29: for every body validateLoanData accepts, approvalProbability and
\* riskScore are both between 0 and 100 and sum to 100, and the decision is
\* APPROVED from 75, REVIEW_REQUIRED from 50 to 74 and REJECTED below 50.
C29_ProbabilityAndRiskWithinRange ==
    mlPrediction.kind = "returned" =>
        LET p == mlPrediction.prediction
        IN  /\ p.approvalProbability >= 0 /\ p.approvalProbability <= 100
            /\ p.riskScore >= 0 /\ p.riskScore <= 100
            /\ p.approvalProbability + p.riskScore = 100
            /\ p.decision = (IF p.approvalProbability >= 75 THEN "APPROVED"
                             ELSE IF p.approvalProbability >= 50 THEN "REVIEW_REQUIRED"
                             ELSE "REJECTED")

\* C30: when an import has responded, every parsed row is counted in exactly
\* one of successfulInserts, duplicateSkipped and validationErrors, so the three
\* sum to totalRecords, and a later occurrence of a Loan_ID in the same file is
\* counted as a duplicate.
C30_EveryRowCountedOnce ==
    \A r \in Requests :
        imports[r].pc = "done" =>
            LET imp == imports[r]
                n == Len(imp.records)
            IN  /\ imp.result.successfulInserts + imp.result.duplicateSkipped
                     + imp.result.validationErrors = imp.result.totalRecords
                /\ imp.result.totalRecords = n
                /\ \A i \in 1..n, j \in 1..n :
                      /\ i < j
                      /\ imp.records[i].Loan_ID = imp.records[j].Loan_ID
                      /\ imp.taken[i] = "inserted"
                      => imp.taken[j] = "duplicate"

====
